---------------------------- MODULE Spec2Model ----------------------------
(***************************************************************************)
(* State-machine model of the review scraper:                              *)
(*   - BaseScraper.scrape_all_pages      (src/src/core/base_scraper.py)    *)
(*   - RetryHandler, CircuitBreaker      (src/src/core/retry_handler.py)   *)
(*   - RateLimiter                       (src/src/core/rate_limiter.py)    *)
(*   - IncrementalStorage / JsonStorage  (src/src/storage/*.py)            *)
(*   - Review / ReviewFactory            (src/src/models/review.py)        *)
(*   - ReviewPipeline                    (src/src/pipeline/transformer.py) *)
(*   - the CLI scrape command            (src/cli/main.py)                 *)
(*   - the campaign scripts              (src/scripts/scrape_adac*.py)     *)
(* Each component has its own specification (SpecPages, SpecRetry,         *)
(* SpecLimiter, SpecStorage, SpecPipeline, SpecReview, SpecJson, SpecCli,  *)
(* SpecCampaign, SpecBreaker); the variables of the other components stay  *)
(* at their idle values.                                                   *)
(***************************************************************************)
EXTENDS Integers, Sequences, FiniteSets, TLC

VARIABLES
    \* ---- BaseScraper.scrape_all_pages (one call of the generator) ----
    pc,             \* position of the generator
    max_reviews,    \* the max_reviews argument; 0 stands for None (and for 0: both falsy)
    pages,          \* result of get_pagination_urls
    page_num,       \* number of pages the for loop has taken so far
    reviews,        \* list returned by the last scrape_reviews call
    rev_idx,        \* number of reviews of that list already yielded and counted
    total_reviews,  \* the running total of the generator
    yielded,        \* history: reviews handed to the consumer, in order
    calls,          \* history: page urls scrape_reviews was called with, in order
    failed,         \* history: positions of the pages whose scrape_reviews raised
    \* ---- RetryHandler.execute (one call) ----
    arg_max_retries,\* the max_retries constructor argument; NoneArg stands for None
    rh_pc,          \* "run", "returned" or "raised"
    attempt,        \* loop variable of execute
    last_exception, \* last_exception of execute
    raised_error,   \* what execute raised to its caller
    outcomes,       \* history: outcome of each invocation of the operation
    sleeps,         \* history: number of backoff sleeps
    \* ---- RateLimiter ----
    rpm,            \* self.rpm
    now,            \* the clock, in seconds
    limiters,       \* domains that have a limiter in self._limiters
    lim_level,      \* per domain: AsyncLimiter._level, times TimePeriod
    lim_last_check, \* per domain: AsyncLimiter._last_check
    request_counts, \* self._request_counts
    acq_times,      \* history, per domain: completion times of the acquisitions
    \* ---- IncrementalStorage, its files, and the ReviewFactory of the run ----
    inst,           \* "new" (constructed) or "ready" (initialize has run)
    batch_size,     \* self.batch_size
    buffer,         \* self._buffer
    all_reviews,    \* self._all_reviews
    checkpoint,     \* self._checkpoint: <<>> for None, <<record>> otherwise
    ckpt_file,      \* the checkpoint file
    data_file,      \* the data file
    next_id,        \* ReviewFactory._next_id
    runs,           \* 1 in the first process on the directory, 2 in the one after it
    last_op,        \* history: the last operation ("other": mark_url_*,
                    \* record_error, and the start of a process)
    last_flushed,   \* history: number of reviews the last operation flushed
    explicit_flush, \* history: flush() or finalize() was called on this instance
    fresh_urls,     \* history: the urls of the initialize call that created the checkpoint
    resumed,        \* history: this instance's initialize resumed a checkpoint
    persisted_at_resume, \* history: content of the data file at that resume
    \* ---- ReviewPipeline ----
    pl_min_length,  \* self.min_length
    pl_max_length,  \* self.max_length
    pl_dedupe,      \* self.dedupe
    pl_clean,       \* self.clean
    pl_seen,        \* the texts the Deduplicator has registered
    pl_transforms,  \* self._transforms
    pl_stats,       \* the counters of self._stats that _process_one touches
    pl_processed,   \* history: number of _process_one calls
    pl_last,        \* history: <<>> or <<what the last _process_one call did>>
    pl_log,         \* history: per call since the last reset, raw text, text and outcome
    pl_old,         \* history: texts that had passed the duplicate check before the last reset
    \* ---- Review and ReviewFactory ----
    rv_next,        \* per factory: ReviewFactory._next_id
    rv_start,       \* history, per factory: the id its current sequence started at
    rv_created,     \* history, per factory: the create calls that returned, in
                    \* order (the text and id given, the review returned)
    rv_last,        \* history: <<>> or <<the last create call and its result>>
    rv_export,      \* history: <<>> or <<the last export: the reviews and the result>>
    \* ---- JsonStorage on one file ----
    js_include_metadata, \* self.include_metadata
    js_file,        \* the file: NoFile or <<content>>
    js_clock,       \* the clock: number of saves and loads so far
    js_saved,       \* history: <<>> or <<the reviews of the last save call>>
    js_ret,         \* history: what the last save call returned
    js_loaded,      \* history: <<>> or <<the reviews the last load call returned>>
    \* ---- the CLI scrape command (_scrape_async) ----
    cli_max,        \* the max_reviews argument (--max); 0 stands for None
    cli_urls,       \* number of urls to scrape
    cli_pc,         \* position in the loop over the urls
    cli_idx,        \* number of urls the for loop has taken so far
    cli_gen_total,  \* total_reviews of the running scrape_all_pages generator
    cli_all,        \* all_reviews
    cli_started,    \* history: len(all_reviews) at the start of each url
    \* ---- a campaign script (scrape_adac.py, scrape_adac_free.py) ----
    camp_script,    \* which script runs
    camp_sources,   \* number of sources of the catalog
    camp_pc,        \* position of the main flow
    camp_idx,       \* number of sources the loop has taken so far
    camp_collected, \* reviews per finished source: the `results` of the
                    \* scraping function, or the reviews main has got so far
    camp_visible,   \* what the interrupt handler sees: main's `results`
                    \* (scrape_adac.py) or the global all_reviews (scrape_adac_free.py)
    camp_interrupts,\* number of SIGINTs handled: `interrupted` is set from the first on
    camp_written,   \* <<>> or <<the reviews per source written to the output files>>
    \* ---- BaseScraper and its HttpClient ----
    sc_supplied,    \* whether the constructor got an http_client
    sc_http_client, \* self._http_client: <<>> or <<the client's identity>>,
                    \* 0 for the caller's client, 1, 2, ... for clients the
                    \* scraper constructed
    sc_owns_client, \* self._owns_client
    sc_constructed, \* number of HttpClient objects the scraper constructed
    sc_open,        \* the clients whose _client is set (started, not closed)
    sc_closed_by_scraper, \* history: the clients __aexit__ called close on
    sc_in_scope,    \* inside `async with scraper`
    sc_enters,      \* number of __aenter__ calls
    sc_last,        \* history: the last call and its outcome
    \* ---- RetryHandler._calculate_delay ----
    bo_attempt,     \* the attempt the next delay is calculated for
    bo_delays,      \* the delays calculated for attempts 0, 1, ..., in ms
    bo_draws,       \* the random.random() draws behind bo_delays
    \* ---- HttpClient.get ----
    hg_pc,          \* position of the get call
    hg_domain,      \* the domain of the get call
    hg_attempt,     \* `attempt` of RetryHandler.execute
    hg_trace,       \* what the current (or last) get call has done, in order
    hg_acquires,    \* per domain: completed rate_limiter.acquire calls
    hg_requests,    \* per domain: calls of self._client.get
    hg_gets,        \* number of get calls started
    \* ---- AdaptiveRateLimiter ----
    ar_rpm,         \* self.rpm, the initial rate
    ar_domain_rpm,  \* self._domain_rpm: per domain <<>> or <<rpm>>
    ar_success,     \* self._success_counts
    ar_errors,      \* self._error_counts
    ar_last_adjustment, \* self._last_adjustment, 0 for a domain it does not hold
    ar_now,         \* time()
    ar_set_values,  \* history: the values assigned to self._domain_rpm[domain]
    \* ---- TrustpilotScraper.get_pagination_urls ----
    tp_link_pages,  \* <<>> or <<the highest page number among the page links>>
    tp_total_reviews, \* <<>> or <<the review count found in the page text>>
    tp_next_button, \* whether the page has a 'next' control
    tp_max_pages,   \* the max_pages argument: <<>> for None or <<n>>
    tp_fetch_fails, \* whether fetching the first page raises
    tp_pc,          \* "call" before and "done" after get_pagination_urls
    tp_urls,        \* the list get_pagination_urls returned
    \* ---- ReviewPipeline statistics ----
    ps_stats,       \* self._stats: input, output and the three drop counters
    ps_calls,       \* number of process and process_stream calls
    ps_last,        \* history: the last call
    \* ---- SteamScraper.scrape_reviews ----
    st_max_reviews, \* the max_reviews argument: <<>> for None or <<m>>
    st_has_app_id,  \* whether _extract_app_id finds an app id in the url
    st_pc,          \* "call", "loop" or "returned"
    st_reviews,     \* the local list `reviews`: <<request, index>> pairs
    st_requests,    \* number of API requests made
    st_returned,    \* the list scrape_reviews returned
    \* ---- CircuitBreaker ----
    cb_failure_threshold, \* self.failure_threshold
    cb_recovery_timeout,  \* self.recovery_timeout
    cb_success_threshold, \* self.success_threshold
    cb_failures,    \* self._failures, 0 for a key it does not hold
    cb_successes,   \* self._successes, 0 for a key it does not hold
    cb_state,       \* self._state, "CLOSED" for a key it does not hold
    cb_last_failure_time, \* self._last_failure_time, 0 for a key it does not hold
    cb_now,         \* the clock
    cb_streak,      \* history, per key: record_failure calls since the last
                    \* record_success and since the state last became CLOSED
    cb_opened_at,   \* history, per key: <<>> or <<the streak at which a CLOSED
                    \* state last became OPEN>>
    cb_half_open_successes, \* history, per key: record_success calls since the
                    \* state last became HALF_OPEN
    cb_last         \* history: the last call, its key and what it returned

pageVars  == <<pc, max_reviews, pages, page_num, reviews, rev_idx, total_reviews,
               yielded, calls, failed>>
retryVars == <<arg_max_retries, rh_pc, attempt, last_exception, raised_error,
               outcomes, sleeps>>
limVars   == <<rpm, now, limiters, lim_level, lim_last_check, request_counts,
               acq_times>>
stoVars   == <<inst, batch_size, buffer, all_reviews, checkpoint, ckpt_file,
               data_file, next_id, runs, last_op, last_flushed,
               explicit_flush, fresh_urls, resumed, persisted_at_resume>>
pipeVars  == <<pl_min_length, pl_max_length, pl_dedupe, pl_clean, pl_seen,
               pl_transforms, pl_stats, pl_processed, pl_last, pl_log, pl_old>>
coreVars  == <<pageVars, retryVars, limVars, stoVars>>
revVars   == <<rv_next, rv_start, rv_created, rv_last, rv_export>>
jsVars    == <<js_include_metadata, js_file, js_clock, js_saved, js_ret, js_loaded>>
cliVars   == <<cli_max, cli_urls, cli_pc, cli_idx, cli_gen_total, cli_all,
               cli_started>>
campVars  == <<camp_script, camp_sources, camp_pc, camp_idx, camp_collected,
               camp_visible, camp_interrupts, camp_written>>
cbVars    == <<cb_failure_threshold, cb_recovery_timeout, cb_success_threshold,
               cb_failures, cb_successes, cb_state, cb_last_failure_time,
               cb_now, cb_streak, cb_opened_at, cb_half_open_successes,
               cb_last>>
scVars    == <<sc_supplied, sc_http_client, sc_owns_client, sc_constructed,
               sc_open, sc_closed_by_scraper, sc_in_scope, sc_enters, sc_last>>
boVars    == <<bo_attempt, bo_delays, bo_draws>>
hgVars    == <<hg_pc, hg_domain, hg_attempt, hg_trace, hg_acquires,
               hg_requests, hg_gets>>
arVars    == <<ar_rpm, ar_domain_rpm, ar_success, ar_errors,
               ar_last_adjustment, ar_now, ar_set_values>>
tpVars    == <<tp_link_pages, tp_total_reviews, tp_next_button, tp_max_pages,
               tp_fetch_fails, tp_pc, tp_urls>>
psVars    == <<ps_stats, ps_calls, ps_last>>
stVars    == <<st_max_reviews, st_has_app_id, st_pc, st_reviews, st_requests,
               st_returned>>
extVars   == <<pipeVars, revVars, jsVars, cliVars, campVars, cbVars,
        scVars, boVars, hgVars, arVars, tpVars, psVars, stVars>>
vars == <<coreVars, extVars>>
notPageVars  == <<retryVars, limVars, stoVars, extVars>>
notRetryVars == <<pageVars, limVars, stoVars, extVars>>
notLimVars   == <<pageVars, retryVars, stoVars, extVars>>
notStoVars   == <<pageVars, retryVars, limVars, extVars>>
notPipeVars == <<coreVars, revVars, jsVars, cliVars, campVars, cbVars,
        scVars, boVars, hgVars, arVars, tpVars, psVars, stVars>>
notRevVars == <<coreVars, pipeVars, jsVars, cliVars, campVars, cbVars,
        scVars, boVars, hgVars, arVars, tpVars, psVars, stVars>>
notJsVars == <<coreVars, pipeVars, revVars, cliVars, campVars, cbVars,
        scVars, boVars, hgVars, arVars, tpVars, psVars, stVars>>
notCliVars == <<coreVars, pipeVars, revVars, jsVars, campVars, cbVars,
        scVars, boVars, hgVars, arVars, tpVars, psVars, stVars>>
notCampVars == <<coreVars, pipeVars, revVars, jsVars, cliVars, cbVars,
        scVars, boVars, hgVars, arVars, tpVars, psVars, stVars>>
notCbVars == <<coreVars, pipeVars, revVars, jsVars, cliVars, campVars,
        scVars, boVars, hgVars, arVars, tpVars, psVars, stVars>>
notScVars == <<coreVars, pipeVars, revVars, jsVars, cliVars, campVars,
        cbVars, boVars, hgVars, arVars, tpVars, psVars, stVars>>
notBoVars == <<coreVars, pipeVars, revVars, jsVars, cliVars, campVars,
        cbVars, scVars, hgVars, arVars, tpVars, psVars, stVars>>
notHgVars == <<coreVars, pipeVars, revVars, jsVars, cliVars, campVars,
        cbVars, scVars, boVars, arVars, tpVars, psVars, stVars>>
notArVars == <<coreVars, pipeVars, revVars, jsVars, cliVars, campVars,
        cbVars, scVars, boVars, hgVars, tpVars, psVars, stVars>>
notTpVars == <<coreVars, pipeVars, revVars, jsVars, cliVars, campVars,
        cbVars, scVars, boVars, hgVars, arVars, psVars, stVars>>
notPsVars == <<coreVars, pipeVars, revVars, jsVars, cliVars, campVars,
        cbVars, scVars, boVars, hgVars, arVars, tpVars, stVars>>
notStVars == <<coreVars, pipeVars, revVars, jsVars, cliVars, campVars,
        cbVars, scVars, boVars, hgVars, arVars, tpVars, psVars>>
(* Bounds of the model.                                                    *)
(***************************************************************************)
MaxPages == 3
MaxPerPage == 2
MaxReviewsArg == 3
MaxRetriesArg == 4
MaxRpm == 2
TickLen == 15
MaxTime == 60
MaxBatch == 2
MaxAdds == 2

(***************************************************************************)
(* BaseScraper.scrape_all_pages                                            *)
(***************************************************************************)
\* A review is identified by the position of its page and its rank on the page.
PageReviews(p, k) == [j \in 1..k |-> <<p, j>>]

\* What one call of the abstract scrape_reviews can do: raise, or return a list.
ScrapeReviewsOutcomes == {<<"raise", 0>>} \cup {<<"list", k>> : k \in 0..MaxPerPage}

LimitReachedOffByOne(m, total) == m # 0 /\ total > m
\* `if max_reviews and total_reviews >= max_reviews`
LimitReached(m, total) == m # 0 /\ total >= m

OnPageErrorPropagate == "raised"
\* `except Exception as e: logger.error(...); continue`
OnPageError == "loop"

PageIdle ==
    /\ pc = "idle" /\ max_reviews = 0 /\ pages = <<>> /\ page_num = 0
    /\ reviews = <<>> /\ rev_idx = 0 /\ total_reviews = 0
    /\ yielded = <<>> /\ calls = <<>> /\ failed = {}

PageInit ==
    /\ pc = "start"
    /\ max_reviews \in 0..MaxReviewsArg
    /\ pages = <<>> /\ page_num = 0
    /\ reviews = <<>> /\ rev_idx = 0 /\ total_reviews = 0
    /\ yielded = <<>> /\ calls = <<>> /\ failed = {}

\* pages = await self.get_pagination_urls(url, max_pages); total_reviews = 0
GetPaginationUrls ==
    /\ pc = "start"
    /\ \E n \in 0..MaxPages : pages' = [i \in 1..n |-> i]
    /\ total_reviews' = 0
    /\ pc' = "loop"
    /\ UNCHANGED <<max_reviews, page_num, reviews, rev_idx, yielded, calls, failed>>

\* next iteration of `for page_num, page_url in enumerate(pages, 1)`:
\* reviews = await self.scrape_reviews(page_url), inside the try
ScrapePage ==
    /\ pc = "loop"
    /\ page_num < Len(pages)
    /\ page_num' = page_num + 1
    /\ calls' = Append(calls, pages[page_num + 1])
    /\ \E out \in ScrapeReviewsOutcomes :
          IF out[1] = "raise"
          THEN /\ failed' = failed \cup {page_num + 1}
               /\ pc' = OnPageError
               /\ UNCHANGED <<reviews, rev_idx>>
          ELSE /\ reviews' = PageReviews(page_num + 1, out[2])
               /\ rev_idx' = 0
               /\ pc' = "iter"
               /\ UNCHANGED failed
    /\ UNCHANGED <<max_reviews, pages, total_reviews, yielded>>

\* `yield review`: the generator hands the review over and is suspended
YieldReview ==
    /\ pc = "iter"
    /\ rev_idx < Len(reviews)
    /\ yielded' = Append(yielded, reviews[rev_idx + 1])
    /\ pc' = "suspended"
    /\ UNCHANGED <<max_reviews, pages, page_num, reviews, rev_idx, total_reviews,
                   calls, failed>>

\* the consumer asks for the next item: total_reviews += 1, then the limit test
ResumeAfterYield ==
    /\ pc = "suspended"
    /\ total_reviews' = total_reviews + 1
    /\ rev_idx' = rev_idx + 1
    /\ pc' = IF LimitReached(max_reviews, total_reviews + 1) THEN "limit" ELSE "iter"
    /\ UNCHANGED <<max_reviews, pages, page_num, reviews, yielded, calls, failed>>

\* the inner for loop is exhausted: log the page, next page
PageDone ==
    /\ pc = "iter"
    /\ rev_idx = Len(reviews)
    /\ pc' = "loop"
    /\ UNCHANGED <<max_reviews, pages, page_num, reviews, rev_idx, total_reviews,
                   yielded, calls, failed>>

\* the page loop is exhausted: "Completed"
Completed ==
    /\ pc = "loop"
    /\ page_num = Len(pages)
    /\ pc' = "done"
    /\ UNCHANGED <<max_reviews, pages, page_num, reviews, rev_idx, total_reviews,
                   yielded, calls, failed>>

(***************************************************************************)
(* RetryHandler                                                            *)
(***************************************************************************)
\* the constructor argument: <<>> stands for None, <<n>> for the integer n
NoneArg == <<>>
IntArg(n) == <<n>>

\* no exception yet
NoException == <<"none", 0>>
\* a result that execute returns
Ok == <<"ok", 0>>

\* settings.max_retries
SettingsMaxRetries == 3

RETRYABLE_STATUS_CODES == {408, 429, 500, 502, 503, 504}

\* Outcomes of one invocation of the wrapped operation:
\*   Ok                 a result that is returned
\*   <<"status", c>>    httpx.HTTPStatusError with status c (raise_for_status),
\*                      or a returned Response with a retryable status c
\*   <<"exc", e>>       an exception of RETRYABLE_EXCEPTIONS
StatusCodes == {404, 403, 429, 503}
RetryableExceptions == {"TimeoutException", "ConnectError"}
OperationOutcomes ==
    {Ok} \cup {<<"status", c>> : c \in StatusCodes}
           \cup {<<"exc", e>> : e \in RetryableExceptions}

\* `self.max_retries = max_retries or settings.max_retries`
EffectiveMaxRetries(arg) ==
    IF arg = NoneArg \/ arg[1] = 0 THEN SettingsMaxRetries ELSE arg[1]

IsRetryableAnyStatus(out) == out # Ok
\* `except self.RETRYABLE_EXCEPTIONS` and
\* `if e.response.status_code in self.RETRYABLE_STATUS_CODES`
IsRetryable(out) ==
    /\ out # Ok
    /\ \/ out[1] = "exc"
       \/ out[1] = "status" /\ out[2] \in RETRYABLE_STATUS_CODES

RetryIdle ==
    /\ arg_max_retries = NoneArg /\ rh_pc = "idle" /\ attempt = 0
    /\ last_exception = NoException /\ raised_error = NoException
    /\ outcomes = <<>> /\ sleeps = 0

RetryInit ==
    /\ arg_max_retries \in {NoneArg} \cup {IntArg(n) : n \in 0..MaxRetriesArg}
    /\ rh_pc = "run" /\ attempt = 0
    /\ last_exception = NoException /\ raised_error = NoException
    /\ outcomes = <<>> /\ sleeps = 0

\* one iteration of `for attempt in range(self.max_retries + 1)`:
\* the operation returns a result
AttemptReturns ==
    /\ rh_pc = "run"
    /\ attempt <= EffectiveMaxRetries(arg_max_retries)
    /\ outcomes' = Append(outcomes, Ok)
    /\ rh_pc' = "returned"
    /\ UNCHANGED <<arg_max_retries, attempt, last_exception, raised_error, sleeps>>

\* the operation fails with a retryable error: _handle_retry(attempt, e)
AttemptFailsRetryable ==
    /\ rh_pc = "run"
    /\ attempt <= EffectiveMaxRetries(arg_max_retries)
    /\ \E out \in OperationOutcomes :
          /\ IsRetryable(out)
          /\ outcomes' = Append(outcomes, out)
          /\ last_exception' = out
          /\ IF attempt >= EffectiveMaxRetries(arg_max_retries)
             THEN \* "Final retry attempt failed": raise exception
                  /\ rh_pc' = "raised"
                  /\ raised_error' = out
                  /\ UNCHANGED <<attempt, sleeps>>
             ELSE \* await asyncio.sleep(delay), then the next attempt
                  /\ sleeps' = sleeps + 1
                  /\ attempt' = attempt + 1
                  /\ UNCHANGED <<rh_pc, raised_error>>
    /\ UNCHANGED arg_max_retries

\* the operation fails with a non-retryable HTTP status error: bare `raise`
AttemptFailsFatal ==
    /\ rh_pc = "run"
    /\ attempt <= EffectiveMaxRetries(arg_max_retries)
    /\ \E out \in OperationOutcomes :
          /\ out # Ok
          /\ ~IsRetryable(out)
          /\ outcomes' = Append(outcomes, out)
          /\ rh_pc' = "raised"
          /\ raised_error' = out
    /\ UNCHANGED <<arg_max_retries, attempt, last_exception, sleeps>>

(***************************************************************************)
(* RateLimiter: one AsyncLimiter(rpm, 60) per domain.  AsyncLimiter (the   *)
(* aiolimiter library, "token bucket" in the class docstring) is a leaky   *)
(* bucket: its level rises by 1 per acquisition, leaks at rpm / 60 per     *)
(* second, and an acquisition completes when level + 1 <= rpm.  Levels are *)
(* kept multiplied by TimePeriod so that the arithmetic is exact.          *)
(***************************************************************************)
Domains == {"example.com", "other.org"}

\* AsyncLimiter(self.rpm, 60): time_period, in seconds
TimePeriod == 60

Max(a, b) == IF a >= b THEN a ELSE b

\* AsyncLimiter._leak: the level after `elapsed` seconds
Leak(level, elapsed, max_rate) == Max(level - elapsed * max_rate, 0)

\* AsyncLimiter.has_capacity(1): level + 1 <= max_rate
HasCapacity(level, max_rate) == level + TimePeriod <= max_rate * TimePeriod

LimIdle ==
    /\ rpm = 0 /\ now = 0 /\ limiters = {}
    /\ lim_level = [d \in Domains |-> 0]
    /\ lim_last_check = [d \in Domains |-> 0]
    /\ request_counts = [d \in Domains |-> 0]
    /\ acq_times = [d \in Domains |-> <<>>]

\* RateLimiter(requests_per_minute): no limiter exists yet
LimInit ==
    /\ rpm \in 1..MaxRpm /\ now = 0 /\ limiters = {}
    /\ lim_level = [d \in Domains |-> 0]
    /\ lim_last_check = [d \in Domains |-> 0]
    /\ request_counts = [d \in Domains |-> 0]
    /\ acq_times = [d \in Domains |-> <<>>]

\* the clock advances (the caller is suspended, or does other work)
Tick ==
    /\ now + TickLen <= MaxTime
    /\ now' = now + TickLen
    /\ UNCHANGED <<rpm, limiters, lim_level, lim_last_check, request_counts, acq_times>>

\* acquire(domain) completes: _get_limiter, `async with limiter` (which blocks
\* until the bucket has capacity), then the counter under the lock
Acquire(d) ==
    LET level == IF d \in limiters
                 THEN Leak(lim_level[d], now - lim_last_check[d], rpm)
                 ELSE 0
    IN  /\ HasCapacity(level, rpm)
        /\ limiters' = limiters \cup {d}
        /\ lim_level' = [lim_level EXCEPT ![d] = level + TimePeriod]
        /\ lim_last_check' = [lim_last_check EXCEPT ![d] = now]
        /\ request_counts' = [request_counts EXCEPT ![d] = @ + 1]
        /\ acq_times' = [acq_times EXCEPT ![d] = Append(@, now)]
        /\ UNCHANGED <<rpm, now>>

AcquireAny == \E d \in Domains : Acquire(d)

(***************************************************************************)
(* Review (models/review.py)                                               *)
(***************************************************************************)
Chars == {"a", " "}

\* the texts a caller passes: empty, plain, whitespace-only, padded
RawTexts == {<<>>, <<"a">>, <<" ">>, <<" ", "a", " ">>}

RECURSIVE LStrip(_)
LStrip(s) == IF s # <<>> /\ Head(s) = " " THEN LStrip(Tail(s)) ELSE s

RECURSIVE RStrip(_)
RStrip(s) ==
    IF s # <<>> /\ s[Len(s)] = " " THEN RStrip(SubSeq(s, 1, Len(s) - 1)) ELSE s

\* str.strip()
Strip(s) == LStrip(RStrip(s))

\* Review.clean_text: `if not v: raise ValueError(...)`
TextRejected(v) == v = <<>>

\* Review(id=..., text=...) after validation; scraped_at (default_factory
\* datetime.utcnow) is the time of construction, modelled by the process that
\* constructed the review
MakeReview(id, v, at) == [id |-> id, text |-> Strip(v), scraped_at |-> at]

ToExportDictFull(r) == r

\* Review.to_export_dict
ToExportDict(r) == [id |-> r.id, text |-> r.text]

(***************************************************************************)
(* JsonStorage (storage/json_storage.py).  A file is <<>> when it does not *)
(* exist and <<content>> when it does.                                     *)
(***************************************************************************)
NoFile == <<>>

\* JsonStorage.save with include_metadata = False: the file after the call
SaveReviews(file, revs) ==
    IF revs = <<>> THEN file
    ELSE <<[i \in 1..Len(revs) |-> ToExportDict(revs[i])]>>

RECURSIVE ParseItems(_, _)
\* JsonStorage.load: Review(**item) per item, items that fail are skipped
ParseItems(items, at) ==
    IF items = <<>> THEN <<>>
    ELSE IF TextRejected(Head(items).text)
         THEN ParseItems(Tail(items), at)
         ELSE <<MakeReview(Head(items).id, Head(items).text, at)>>
                  \o ParseItems(Tail(items), at)

LoadReviews(file, at) == IF file = NoFile THEN <<>> ELSE ParseItems(file[1], at)

(***************************************************************************)
(* IncrementalStorage (storage/incremental.py)                             *)
(***************************************************************************)
Urls == {"u1", "u2"}

\* the url lists a caller passes to initialize
UrlLists == {<<>>, <<"u1">>, <<"u1", "u2">>, <<"u1", "u1">>}

NoUrl == "None"

\* ScrapeCheckpoint.current_page default, mark_url_started's page default
DefaultPage == 1

Range(s) == {s[i] : i \in 1..Len(s)}

RECURSIVE RemoveFirst(_, _)
\* list.remove(x): removes the first occurrence
RemoveFirst(s, x) ==
    IF s = <<>> THEN <<>>
    ELSE IF Head(s) = x THEN Tail(s)
         ELSE <<Head(s)>> \o RemoveFirst(Tail(s), x)

\* ScrapeCheckpoint(...) of a new run
NewCheckpoint(urls) ==
    [total_reviews |-> 0, urls_completed |-> <<>>, urls_pending |-> urls,
     current_url |-> NoUrl, current_page |-> DefaultPage, last_review_id |-> 0,
     errors |-> "empty"]

BatchFullOffByOne(len, size) == len > size
\* `if len(self._buffer) >= self.batch_size`
BatchFull(len, size) == len >= size

CheckpointTotalOfBatch(all, count) == count
\* `self._checkpoint.total_reviews = len(self._all_reviews)`
CheckpointTotal(all, count) == Len(all)

ShouldRemoveAlways(cp) == cp # <<>>
\* `if self._checkpoint and not self._checkpoint.urls_pending`
ShouldRemoveCheckpoint(cp) == cp # <<>> /\ cp[1].urls_pending = <<>>

\* IncrementalStorage.flush: the storage after the call and the count returned
FlushResult(buf, all, cp, ckf, df) ==
    IF buf = <<>>
    THEN [buffer |-> buf, all_reviews |-> all, checkpoint |-> cp,
          ckpt_file |-> ckf, data_file |-> df, count |-> 0]
    ELSE LET all2 == all \o buf
             cp2 == IF cp = <<>> THEN cp
                    ELSE <<[cp[1] EXCEPT
                              !.total_reviews = CheckpointTotal(all2, Len(buf)),
                              !.last_review_id = all2[Len(all2)].id]>>
         IN  [buffer |-> <<>>, all_reviews |-> all2, checkpoint |-> cp2,
              ckpt_file |-> IF cp = <<>> THEN ckf ELSE cp2,
              data_file |-> SaveReviews(df, all2), count |-> Len(buf)]

StoIdle ==
    /\ inst = "idle" /\ batch_size = 0 /\ buffer = <<>> /\ all_reviews = <<>>
    /\ checkpoint = <<>> /\ ckpt_file = NoFile /\ data_file = NoFile
    /\ next_id = 0 /\ runs = 0 /\ last_op = "other" /\ last_flushed = 0
    /\ explicit_flush = FALSE
    /\ fresh_urls = <<>> /\ resumed = FALSE /\ persisted_at_resume = <<>>

\* IncrementalStorage(output_dir, source_name, batch_size) on an empty directory,
\* and a ReviewFactory()
StoInit ==
    /\ inst = "new" /\ batch_size \in 1..MaxBatch
    /\ buffer = <<>> /\ all_reviews = <<>>
    /\ checkpoint = <<>> /\ ckpt_file = NoFile /\ data_file = NoFile
    /\ next_id = 1 /\ runs = 1 /\ last_op = "other" /\ last_flushed = 0
    /\ explicit_flush = FALSE
    /\ fresh_urls = <<>> /\ resumed = FALSE /\ persisted_at_resume = <<>>

stoHistory == <<explicit_flush, fresh_urls, resumed, persisted_at_resume>>

\* initialize(urls) when the checkpoint file exists: resume
InitializeResume ==
    /\ inst = "new"
    /\ ckpt_file # NoFile
    /\ \E urls \in UrlLists :
          /\ checkpoint' = ckpt_file
          /\ all_reviews' = LoadReviews(data_file, runs)
    /\ inst' = "ready"
    /\ last_op' = "initialize" /\ last_flushed' = 0
    /\ resumed' = TRUE
    /\ persisted_at_resume' = IF data_file = NoFile THEN <<>> ELSE data_file[1]
    /\ UNCHANGED <<batch_size, buffer, ckpt_file, data_file, next_id, runs,
                   explicit_flush, fresh_urls>>

\* initialize(urls) without a checkpoint file: new checkpoint, saved
InitializeFresh ==
    /\ inst = "new"
    /\ ckpt_file = NoFile
    /\ \E urls \in UrlLists :
          /\ checkpoint' = <<NewCheckpoint(urls)>>
          /\ ckpt_file' = <<NewCheckpoint(urls)>>
          /\ fresh_urls' = urls
    /\ inst' = "ready"
    /\ last_op' = "initialize" /\ last_flushed' = 0
    /\ resumed' = FALSE
    /\ UNCHANGED <<batch_size, buffer, all_reviews, data_file, next_id, runs,
                   explicit_flush, persisted_at_resume>>

\* add_review(factory.create(text, ...)): append, and flush when the batch is full
AddReview ==
    /\ inst = "ready"
    /\ Len(all_reviews) + Len(buffer) < MaxAdds
    /\ \E v \in RawTexts :
          /\ ~TextRejected(v)
          /\ LET buf == Append(buffer, MakeReview(next_id, v, runs))
                 f == IF BatchFull(Len(buf), batch_size)
                      THEN FlushResult(buf, all_reviews, checkpoint, ckpt_file, data_file)
                      ELSE [buffer |-> buf, all_reviews |-> all_reviews,
                            checkpoint |-> checkpoint, ckpt_file |-> ckpt_file,
                            data_file |-> data_file, count |-> 0]
             IN  /\ buffer' = f.buffer
                 /\ all_reviews' = f.all_reviews
                 /\ checkpoint' = f.checkpoint
                 /\ ckpt_file' = f.ckpt_file
                 /\ data_file' = f.data_file
                 /\ last_flushed' = f.count
    /\ next_id' = next_id + 1
    /\ last_op' = "add_review"
    /\ UNCHANGED <<inst, batch_size, runs, explicit_flush, fresh_urls, resumed,
                   persisted_at_resume>>

\* flush() called by the user of the storage
Flush ==
    /\ inst = "ready"
    /\ LET f == FlushResult(buffer, all_reviews, checkpoint, ckpt_file, data_file)
       IN  /\ buffer' = f.buffer
           /\ all_reviews' = f.all_reviews
           /\ checkpoint' = f.checkpoint
           /\ ckpt_file' = f.ckpt_file
           /\ data_file' = f.data_file
           /\ last_flushed' = f.count
    /\ explicit_flush' = TRUE
    /\ last_op' = "flush"
    /\ UNCHANGED <<inst, batch_size, next_id, runs, fresh_urls, resumed,
                   persisted_at_resume>>

\* mark_url_complete(url)
MarkUrlComplete ==
    /\ inst = "ready"
    /\ \E url \in Urls :
          LET cp == checkpoint[1]
              pending == IF url \in Range(cp.urls_pending)
                         THEN RemoveFirst(cp.urls_pending, url)
                         ELSE cp.urls_pending
              completed == IF url \notin Range(cp.urls_completed)
                           THEN Append(cp.urls_completed, url)
                           ELSE cp.urls_completed
              cp2 == <<[cp EXCEPT !.urls_pending = pending,
                                  !.urls_completed = completed,
                                  !.current_url = NoUrl]>>
          IN  /\ checkpoint' = cp2
              /\ ckpt_file' = cp2
    /\ last_op' = "other" /\ last_flushed' = 0
    /\ UNCHANGED <<inst, batch_size, buffer, all_reviews, data_file, next_id, runs>>
    /\ UNCHANGED stoHistory

\* mark_url_started(url) with the default page
MarkUrlStarted ==
    /\ inst = "ready"
    /\ \E url \in Urls :
          LET cp2 == <<[checkpoint[1] EXCEPT !.current_url = url,
                                             !.current_page = DefaultPage]>>
          IN  /\ checkpoint' = cp2
              /\ ckpt_file' = cp2
    /\ last_op' = "other" /\ last_flushed' = 0
    /\ UNCHANGED <<inst, batch_size, buffer, all_reviews, data_file, next_id, runs>>
    /\ UNCHANGED stoHistory

\* record_error(error): errors.append(...); of the errors list the model keeps
\* only whether it is empty
RecordError ==
    /\ inst = "ready"
    /\ LET cp2 == <<[checkpoint[1] EXCEPT !.errors = "nonempty"]>>
       IN  /\ checkpoint' = cp2
           /\ ckpt_file' = cp2
    /\ last_op' = "other" /\ last_flushed' = 0
    /\ UNCHANGED <<inst, batch_size, buffer, all_reviews, data_file, next_id, runs>>
    /\ UNCHANGED stoHistory

\* finalize(): flush, then remove the checkpoint file when no url is pending
Finalize ==
    /\ inst = "ready"
    /\ LET f == FlushResult(buffer, all_reviews, checkpoint, ckpt_file, data_file)
       IN  /\ buffer' = f.buffer
           /\ all_reviews' = f.all_reviews
           /\ checkpoint' = f.checkpoint
           /\ data_file' = f.data_file
           /\ last_flushed' = f.count
           /\ ckpt_file' = IF ShouldRemoveCheckpoint(f.checkpoint)
                           THEN NoFile ELSE f.ckpt_file
    /\ explicit_flush' = TRUE
    /\ last_op' = "finalize"
    /\ UNCHANGED <<inst, batch_size, next_id, runs, fresh_urls, resumed,
                   persisted_at_resume>>

\* the first process stops (interrupt, crash or normal exit) and a second one
\* builds a new IncrementalStorage and ReviewFactory on the same directory
Restart ==
    /\ inst = "ready"
    /\ runs = 1
    /\ runs' = runs + 1
    /\ inst' = "new"
    /\ buffer' = <<>> /\ all_reviews' = <<>> /\ checkpoint' = <<>>
    /\ next_id' = 1
    /\ last_op' = "other" /\ last_flushed' = 0
    /\ explicit_flush' = FALSE
    /\ resumed' = FALSE /\ persisted_at_resume' = <<>>
    /\ UNCHANGED <<batch_size, ckpt_file, data_file, fresh_urls>>

(***************************************************************************)
(* ReviewPipeline (src/src/pipeline/transformer.py).  TextCleaner and      *)
(* Deduplicator are not part of the source tree at hand: the cleaner is    *)
(* whitespace collapsing and trim, the deduplicator a set of seen texts.   *)
(***************************************************************************)
MaxProcessed == 3
MaxTransforms == 2

\* texts of the reviews handed to the pipeline
PipeTexts == {<<"a">>, <<"a", " ", "a">>, <<"a", " ", " ", "a">>, <<"a", "a", "a">>}

\* configurations of the pipeline
MinLengths == {2}
MaxLengths == {3}

\* what a registered transform does: return the review, return a review
\* with another text, return None
TransformKinds == {"keep", "replace", "drop"}

ReplacedText == <<"z", "z">>

\* TextCleaner.clean: runs of whitespace become one blank, then trim
RECURSIVE CollapseSpaces(_)
CollapseSpaces(s) ==
    IF Len(s) < 2 THEN s
    ELSE IF s[1] = " " /\ s[2] = " " THEN CollapseSpaces(Tail(s))
    ELSE <<s[1]>> \o CollapseSpaces(Tail(s))

CleanerClean(s) == Strip(CollapseSpaces(s))

\* Deduplicator.is_duplicate, add, reset
DedupIsDuplicate(seen, text) == text \in seen

DedupAdd(seen, text) == seen \cup {text}

DedupReset == {}

\* step 1 of _process_one
CleanedText(clean, raw) == IF clean THEN CleanerClean(raw) ELSE raw

\* step 2 of _process_one
LengthRejected(text_len, min_length, max_length) ==
    text_len < min_length \/ text_len > max_length

DedupKeyRaw(raw, text) == raw

\* step 3 of _process_one: the text the deduplicator is asked about
DedupKey(raw, text) == text

RegisterAsSeenNever(dedupe, seen, key) == seen

\* step 3 of _process_one: a review that is no duplicate is registered
RegisterAsSeen(dedupe, seen, key) ==
    IF dedupe THEN DedupAdd(seen, key) ELSE seen

\* one registered transform applied to a review text: <<>> stands for None
ApplyTransform(kind, text) ==
    CASE kind = "keep" -> <<text>>
      [] kind = "replace" -> <<ReplacedText>>
      [] kind = "drop" -> <<>>

\* step 4 of _process_one: the loop over self._transforms from position k;
\* the result is the returned review text (<<>> for None) and the steps taken
RECURSIVE RunTransforms(_, _, _, _)
RunTransforms(ts, k, text, steps) ==
    IF k > Len(ts) THEN [review |-> <<text>>, steps |-> steps]
    ELSE LET r == ApplyTransform(ts[k], text)
             st == Append(steps, <<"transform", k>>)
         IN  IF r = <<>> THEN [review |-> <<>>, steps |-> st]
             ELSE RunTransforms(ts, k + 1, r[1], st)

NoStats == [cleaned |-> 0, deduplicated |-> 0, filtered_length |-> 0,
            filtered_quality |-> 0]

PipeIdle ==
    /\ pl_min_length = 0 /\ pl_max_length = 0
    /\ pl_dedupe = FALSE /\ pl_clean = FALSE
    /\ pl_seen = {} /\ pl_transforms = <<>> /\ pl_stats = NoStats
    /\ pl_processed = 0 /\ pl_last = <<>> /\ pl_log = <<>> /\ pl_old = {}

\* ReviewPipeline.__init__
PipeInit ==
    /\ pl_min_length \in MinLengths /\ pl_max_length \in MaxLengths
    /\ pl_dedupe \in BOOLEAN /\ pl_clean \in BOOLEAN
    /\ pl_seen = {} /\ pl_transforms = <<>> /\ pl_stats = NoStats
    /\ pl_processed = 0 /\ pl_last = <<>> /\ pl_log = <<>> /\ pl_old = {}

\* ReviewPipeline.add_transform
AddTransform ==
    /\ Len(pl_transforms) < MaxTransforms
    /\ \E kind \in TransformKinds : pl_transforms' = Append(pl_transforms, kind)
    /\ UNCHANGED <<pl_min_length, pl_max_length, pl_dedupe, pl_clean, pl_seen,
                   pl_stats, pl_processed, pl_last, pl_log, pl_old>>

\* ReviewPipeline._process_one
ProcessOne ==
    /\ pl_processed < MaxProcessed
    /\ \E raw \in PipeTexts :
        LET text == CleanedText(pl_clean, raw)
            s1 == IF pl_clean THEN <<<<"clean", 0>>>> ELSE <<>>
            st1 == IF pl_clean
                     THEN [pl_stats EXCEPT !.cleaned = @ + 1] ELSE pl_stats
            s2 == Append(s1, <<"length", 0>>)
            key == DedupKey(raw, text)
            s3 == IF pl_dedupe THEN Append(s2, <<"dedupe", 0>>) ELSE s2
            run == RunTransforms(pl_transforms, 1, text, s3)
            Done(steps, outcome, seen, stats, asked) ==
                /\ pl_seen' = seen
                /\ pl_stats' = stats
                /\ pl_last' = <<[raw |-> raw, text |-> text, steps |-> steps,
                                 outcome |-> outcome, asked |-> asked,
                                 seen_before |-> pl_seen,
                                 seen_after |-> seen,
                                 transforms |-> pl_transforms]>>
                /\ pl_log' = Append(pl_log, [raw |-> raw, text |-> text,
                                             outcome |-> outcome])
        IN  IF LengthRejected(Len(text), pl_min_length, pl_max_length)
              THEN Done(s2, "filtered_length", pl_seen,
                        [st1 EXCEPT !.filtered_length = @ + 1], <<>>)
            ELSE IF pl_dedupe /\ DedupIsDuplicate(pl_seen, key)
              THEN Done(s3, "deduplicated", pl_seen,
                        [st1 EXCEPT !.deduplicated = @ + 1], <<key>>)
            ELSE IF run.review = <<>>
              THEN Done(run.steps, "filtered_quality",
                        RegisterAsSeen(pl_dedupe, pl_seen, key),
                        [st1 EXCEPT !.filtered_quality = @ + 1],
                        IF pl_dedupe THEN <<key>> ELSE <<>>)
            ELSE Done(run.steps, "returned",
                      RegisterAsSeen(pl_dedupe, pl_seen, key), st1,
                      IF pl_dedupe THEN <<key>> ELSE <<>>)
    /\ pl_processed' = pl_processed + 1
    /\ UNCHANGED <<pl_min_length, pl_max_length, pl_dedupe, pl_clean,
                   pl_transforms, pl_old>>

\* ReviewPipeline.reset_deduplicator
ResetDeduplicator ==
    /\ pl_seen' = DedupReset
    /\ pl_old' = pl_old \cup
                 {pl_log[i].text : i \in {j \in 1..Len(pl_log) :
                      pl_log[j].outcome \in {"filtered_quality", "returned"}}}
    /\ pl_log' = <<>>
    /\ UNCHANGED <<pl_min_length, pl_max_length, pl_dedupe, pl_clean,
                   pl_transforms, pl_stats, pl_processed, pl_last>>

(***************************************************************************)
(* Review construction, export, and ReviewFactory                          *)
(* (src/src/models/review.py)                                              *)
(***************************************************************************)
MaxCreates == 3

Factories == {"f1", "f2"}

\* the start_id arguments of the factories
StartIds == {1, 5}

\* metadata keyword arguments of a construction: none, or rating and author
NoMeta == "none"
Metas == {NoMeta, "rated"}

\* Review(id=id, text=v, **kwargs) when the validator accepts v
ReviewWith(id, v, meta, at) ==
    IF meta = NoMeta THEN MakeReview(id, v, at)
    ELSE [id |-> id, text |-> Strip(v), rating |-> 5, author |-> "John",
          scraped_at |-> at]

\* ReviewBatch.to_export_list
ToExportList(revs) == [i \in 1..Len(revs) |-> ToExportDict(revs[i])]

NextIdAfterCreateSame(n) == n

\* ReviewFactory.create: self._next_id += 1
NextIdAfterCreate(n) == n + 1

RevIdle ==
    /\ rv_next = [f \in Factories |-> 0]
    /\ rv_start = [f \in Factories |-> 0]
    /\ rv_created = [f \in Factories |-> <<>>]
    /\ rv_last = <<>>
    /\ rv_export = <<>>

\* ReviewFactory.__init__, for each factory
RevInit ==
    /\ rv_next \in [Factories -> StartIds]
    /\ rv_start = rv_next
    /\ rv_created = [f \in Factories |-> <<>>]
    /\ rv_last = <<>>
    /\ rv_export = <<>>

TotalCreated == Len(rv_created["f1"]) + Len(rv_created["f2"])

\* ReviewFactory.create whose Review(...) raises: _next_id is left alone
CreateRaises ==
    /\ \E f \in Factories, v \in RawTexts :
        /\ TextRejected(v)
        /\ rv_last' = <<[factory |-> f, raw |-> v, returned |-> <<>>]>>
    /\ UNCHANGED <<rv_next, rv_start, rv_created, rv_export>>

\* ReviewFactory.create that returns a review
CreateReturns ==
    /\ TotalCreated < MaxCreates
    /\ \E f \in Factories, v \in RawTexts, meta \in Metas :
        LET review == ReviewWith(rv_next[f], v, meta, 1)
        IN  /\ ~TextRejected(v)
            /\ rv_next' = [rv_next EXCEPT ![f] = NextIdAfterCreate(@)]
            /\ rv_created' = [rv_created EXCEPT
                                ![f] = Append(@, [raw |-> v, id |-> rv_next[f],
                                                 review |-> review])]
            /\ rv_last' = <<[factory |-> f, raw |-> v, returned |-> <<review>>]>>
    /\ UNCHANGED <<rv_start, rv_export>>

\* Review.to_export_dict of one created review
ExportOne ==
    /\ \E f \in Factories :
        \E i \in 1..Len(rv_created[f]) :
            rv_export' = <<[of |-> <<rv_created[f][i]>>,
                            result |-> <<ToExportDict(rv_created[f][i].review)>>]>>
    /\ UNCHANGED <<rv_next, rv_start, rv_created, rv_last>>

\* ReviewBatch(reviews=...).to_export_list() of the reviews of one factory
ExportBatch ==
    /\ \E f \in Factories :
        /\ rv_created[f] # <<>>
        /\ rv_export' =
             <<[of |-> rv_created[f],
                result |-> ToExportList([i \in 1..Len(rv_created[f]) |->
                                            rv_created[f][i].review])]>>
    /\ UNCHANGED <<rv_next, rv_start, rv_created, rv_last>>

(***************************************************************************)
(* JsonStorage.save and load on one file (src/src/storage/json_storage.py) *)
(***************************************************************************)
MaxSaved == 2
MaxJsOps == 3

\* the fields of a Review that hold a datetime
DatetimeFields == {"date", "scraped_at"}

\* Review.to_full_dict: model_dump(exclude_none=True) keeps every field that
\* is not None, with its Python value (a field that is None is absent from
\* the record of a review)
ToFullDict(r) == [k \in DOMAIN r |-> r[k]]

\* json.dumps raises TypeError on a dict that holds a datetime
JsonSerializable(d) == DOMAIN d \cap DatetimeFields = {}

\* the content open(..., "w") leaves when nothing is written
EmptyContent == <<>>

\* JsonStorage.save: the file after the call
SaveFile(include_metadata, file, revs) ==
    IF revs = <<>> THEN file
    ELSE IF ~include_metadata THEN SaveReviews(file, revs)
    ELSE IF \A i \in 1..Len(revs) : JsonSerializable(ToFullDict(revs[i]))
         THEN <<[i \in 1..Len(revs) |-> ToFullDict(revs[i])]>>
         ELSE <<EmptyContent>>

\* JsonStorage.save: the value returned
SaveReturn(include_metadata, revs) ==
    IF revs = <<>> THEN 0
    ELSE IF ~include_metadata THEN Len(revs)
    ELSE IF \A i \in 1..Len(revs) : JsonSerializable(ToFullDict(revs[i]))
         THEN Len(revs)
         ELSE 0

\* the lists of reviews handed to save: reviews constructed before, with
\* ids 1, 2, ...
SavableTexts == {v \in RawTexts : ~TextRejected(v)}

ReviewLists ==
    UNION {[1..n -> SavableTexts \X Metas] : n \in 0..MaxSaved}

ReviewsOf(l) == [i \in 1..Len(l) |-> ReviewWith(i, l[i][1], l[i][2], 0)]

JsIdle ==
    /\ js_include_metadata = FALSE /\ js_file = NoFile /\ js_clock = 0
    /\ js_saved = <<>> /\ js_ret = 0 /\ js_loaded = <<>>

\* JsonStorage.__init__, the file does not exist yet
JsInit ==
    /\ js_include_metadata \in BOOLEAN
    /\ js_file = NoFile /\ js_clock = 0
    /\ js_saved = <<>> /\ js_ret = 0 /\ js_loaded = <<>>

\* JsonStorage.save
JsSave ==
    /\ js_clock < MaxJsOps
    /\ \E l \in ReviewLists :
        LET revs == ReviewsOf(l)
        IN  /\ js_file' = SaveFile(js_include_metadata, js_file, revs)
            /\ js_ret' = SaveReturn(js_include_metadata, revs)
            /\ js_saved' = <<revs>>
    /\ js_loaded' = <<>>
    /\ js_clock' = js_clock + 1
    /\ UNCHANGED js_include_metadata

\* JsonStorage.load
JsLoad ==
    /\ js_clock < MaxJsOps
    /\ js_loaded' = <<LoadReviews(js_file, js_clock + 1)>>
    /\ js_clock' = js_clock + 1
    /\ UNCHANGED <<js_include_metadata, js_file, js_saved, js_ret>>

(***************************************************************************)
(* The CLI scrape command: the loop of _scrape_async over its urls         *)
(* (src/cli/main.py), each url consumed through scrape_all_pages           *)
(***************************************************************************)
MaxCliMax == 2
MaxCliUrls == 3
MaxPerUrl == 2

CliLimitReachedNever(m, count) == FALSE

\* `if max_reviews and len(all_reviews) >= max_reviews: break`
CliLimitReached(m, count) == m # 0 /\ count >= m

CliIdle ==
    /\ cli_max = 0 /\ cli_urls = 0 /\ cli_pc = "idle" /\ cli_idx = 0
    /\ cli_gen_total = 0 /\ cli_all = <<>> /\ cli_started = <<>>

\* _scrape_async up to the loop: the urls are resolved, all_reviews = []
CliInit ==
    /\ cli_max \in 0..MaxCliMax
    /\ cli_urls \in 1..MaxCliUrls
    /\ cli_pc = "next_url" /\ cli_idx = 0
    /\ cli_gen_total = 0 /\ cli_all = <<>> /\ cli_started = <<>>

\* the for loop takes the next url and calls scrape_all_pages on it
CliStartUrl ==
    /\ cli_pc = "next_url"
    /\ cli_idx < cli_urls
    /\ cli_idx' = cli_idx + 1
    /\ cli_gen_total' = 0
    /\ cli_started' = Append(cli_started, Len(cli_all))
    /\ cli_pc' = "in_url"
    /\ UNCHANGED <<cli_max, cli_urls, cli_all>>

\* the generator yields a review (it returns instead once its own total has
\* reached max_reviews); the loop body appends it and tests the limit
CliReview ==
    /\ cli_pc = "in_url"
    /\ cli_gen_total < MaxPerUrl
    /\ ~LimitReached(cli_max, cli_gen_total)
    /\ cli_gen_total' = cli_gen_total + 1
    /\ cli_all' = Append(cli_all, <<cli_idx, cli_gen_total + 1>>)
    /\ cli_pc' = IF CliLimitReached(cli_max, Len(cli_all) + 1)
                   THEN "after_url" ELSE "in_url"
    /\ UNCHANGED <<cli_max, cli_urls, cli_idx, cli_started>>

\* the generator is exhausted or returns
CliGeneratorEnds ==
    /\ cli_pc = "in_url"
    /\ cli_pc' = "after_url"
    /\ UNCHANGED <<cli_max, cli_urls, cli_idx, cli_gen_total, cli_all, cli_started>>

\* the generator raises: the except clause prints a warning
CliGeneratorRaises ==
    /\ cli_pc = "in_url"
    /\ cli_pc' = "after_url"
    /\ cli_gen_total' = 0
    /\ UNCHANGED <<cli_max, cli_urls, cli_idx, cli_all, cli_started>>

\* progress.advance and the limit test at the end of the loop body
CliAfterUrl ==
    /\ cli_pc = "after_url"
    /\ cli_pc' = IF CliLimitReached(cli_max, Len(cli_all)) \/ cli_idx = cli_urls
                   THEN "collected" ELSE "next_url"
    /\ UNCHANGED <<cli_max, cli_urls, cli_idx, cli_gen_total, cli_all, cli_started>>

(***************************************************************************)
(* The campaign scripts' main flow and SIGINT handler                      *)
(* (src/scripts/scrape_adac.py, src/scripts/scrape_adac_free.py)           *)
(***************************************************************************)
MaxSources == 3
MaxPerSource == 2

Scripts == {"scrape_adac", "scrape_adac_free"}

RECURSIVE SumOf(_)
SumOf(s) == IF s = <<>> THEN 0 ELSE Head(s) + SumOf(Tail(s))

\* what the handler sees once a source is finished: scrape_adac_free.py
\* extends the global all_reviews; in scrape_adac.py the reviews go into the
\* `results` local to scrape_all_adac_interruptible, and main's `results`
\* (the one the handler reads) stays {} until that function returns
VisibleAfterSource(script, visible, collected) ==
    IF script = "scrape_adac_free" THEN collected ELSE visible

\* `if results:` on the dict of scrape_adac.py,
\* `if not all_reviews: return` on the list of scrape_adac_free.py
HasData(script, visible) ==
    IF script = "scrape_adac" THEN Len(visible) > 0 ELSE SumOf(visible) > 0

\* save_results as called by the handler and by main
WrittenBy(script, visible, written) ==
    IF HasData(script, visible) THEN <<visible>> ELSE written

CampIdle ==
    /\ camp_script = "none" /\ camp_sources = 0 /\ camp_pc = "idle"
    /\ camp_idx = 0 /\ camp_collected = <<>> /\ camp_visible = <<>>
    /\ camp_interrupts = 0 /\ camp_written = <<>>

\* main up to the loop over the sources, the handler registered
CampInit ==
    /\ camp_script \in Scripts
    /\ camp_sources \in 1..MaxSources
    /\ camp_pc = "check"
    /\ camp_idx = 0 /\ camp_collected = <<>> /\ camp_visible = <<>>
    /\ camp_interrupts = 0 /\ camp_written = <<>>

\* head of the loop: stop when interrupted or out of sources, else start
\* the next source
CampNextSource ==
    /\ camp_pc = "check"
    /\ camp_interrupts = 0 /\ camp_idx < camp_sources
    /\ camp_idx' = camp_idx + 1
    /\ camp_pc' = "scraping"
    /\ UNCHANGED <<camp_script, camp_sources, camp_collected, camp_visible,
                   camp_interrupts, camp_written>>

\* the loop ends (break on `interrupted`, or no source left); in
\* scrape_adac.py the function returns and main's `results` is assigned
CampLoopEnds ==
    /\ camp_pc = "check"
    /\ camp_interrupts > 0 \/ camp_idx = camp_sources
    /\ camp_visible' = camp_collected
    /\ camp_pc' = "returned"
    /\ UNCHANGED <<camp_script, camp_sources, camp_idx, camp_collected,
                   camp_interrupts, camp_written>>

\* the current source finishes with k reviews (0 when it failed)
CampSourceDone ==
    /\ camp_pc = "scraping"
    /\ \E k \in 0..MaxPerSource :
        /\ camp_collected' = Append(camp_collected, k)
        /\ camp_visible' = VisibleAfterSource(camp_script, camp_visible,
                                              Append(camp_collected, k))
    /\ camp_pc' = "check"
    /\ UNCHANGED <<camp_script, camp_sources, camp_idx, camp_interrupts,
                   camp_written>>

\* main saves the results after the loop
CampSave ==
    /\ camp_pc = "returned"
    /\ camp_written' = WrittenBy(camp_script, camp_visible, camp_written)
    /\ camp_pc' = "finished"
    /\ UNCHANGED <<camp_script, camp_sources, camp_idx, camp_collected,
                   camp_visible, camp_interrupts>>

\* first SIGINT: the handler sets `interrupted`
CampFirstInterrupt ==
    /\ camp_pc \in {"check", "scraping", "returned"}
    /\ camp_interrupts = 0
    /\ camp_interrupts' = 1
    /\ UNCHANGED <<camp_script, camp_sources, camp_pc, camp_idx,
                   camp_collected, camp_visible, camp_written>>

\* second SIGINT: the handler saves what it sees and calls sys.exit(1)
CampSecondInterrupt ==
    /\ camp_pc \in {"check", "scraping", "returned"}
    /\ camp_interrupts = 1
    /\ camp_interrupts' = 2
    /\ camp_written' = WrittenBy(camp_script, camp_visible, camp_written)
    /\ camp_pc' = "exited"
    /\ UNCHANGED <<camp_script, camp_sources, camp_idx, camp_collected,
                   camp_visible>>

(***************************************************************************)
(* CircuitBreaker (src/src/core/retry_handler.py)                          *)
(***************************************************************************)
MaxThreshold == 2
MaxFailures == 3
MaxCbTime == 2

Keys == {"k1", "k2"}

\* the recovery_timeout arguments
RecoveryTimeouts == {0, 1}

FailuresAfterSuccessKept(n) == n

\* record_success while CLOSED: self._failures[key] = 0
FailuresAfterSuccess(n) == 0

\* record_failure while CLOSED
Trips(failures, threshold) == failures >= threshold

RecoveryElapsedAlways(t, last, timeout) == TRUE

\* can_proceed while OPEN
RecoveryElapsed(t, last, timeout) == t - last > timeout

CbIdle ==
    /\ cb_failure_threshold = 0 /\ cb_recovery_timeout = 0
    /\ cb_success_threshold = 0
    /\ cb_failures = [k \in Keys |-> 0]
    /\ cb_successes = [k \in Keys |-> 0]
    /\ cb_state = [k \in Keys |-> "CLOSED"]
    /\ cb_last_failure_time = [k \in Keys |-> 0]
    /\ cb_now = 0
    /\ cb_streak = [k \in Keys |-> 0]
    /\ cb_opened_at = [k \in Keys |-> <<>>]
    /\ cb_half_open_successes = [k \in Keys |-> 0]
    /\ cb_last = <<"none", "none", "none">>

\* CircuitBreaker.__init__
CbInit ==
    /\ cb_failure_threshold \in 1..MaxThreshold
    /\ cb_recovery_timeout \in RecoveryTimeouts
    /\ cb_success_threshold \in 1..MaxThreshold
    /\ cb_failures = [k \in Keys |-> 0]
    /\ cb_successes = [k \in Keys |-> 0]
    /\ cb_state = [k \in Keys |-> "CLOSED"]
    /\ cb_last_failure_time = [k \in Keys |-> 0]
    /\ cb_now = 0
    /\ cb_streak = [k \in Keys |-> 0]
    /\ cb_opened_at = [k \in Keys |-> <<>>]
    /\ cb_half_open_successes = [k \in Keys |-> 0]
    /\ cb_last = <<"none", "none", "none">>

cbConfig == <<cb_failure_threshold, cb_recovery_timeout, cb_success_threshold>>

\* time passes
CbTick ==
    /\ cb_now < MaxCbTime
    /\ cb_now' = cb_now + 1
    /\ UNCHANGED <<cbConfig, cb_failures, cb_successes, cb_state,
                   cb_last_failure_time, cb_streak, cb_opened_at,
                   cb_half_open_successes, cb_last>>

\* CircuitBreaker.can_proceed
CanProceed(key) ==
    /\ IF /\ cb_state[key] = "OPEN"
          /\ RecoveryElapsed(cb_now, cb_last_failure_time[key], cb_recovery_timeout)
         THEN /\ cb_state' = [cb_state EXCEPT ![key] = "HALF_OPEN"]
              /\ cb_successes' = [cb_successes EXCEPT ![key] = 0]
              /\ cb_half_open_successes' =
                    [cb_half_open_successes EXCEPT ![key] = 0]
              /\ cb_last' = <<"can_proceed", key, "True">>
         ELSE /\ cb_last' = <<"can_proceed", key,
                              IF cb_state[key] = "OPEN" THEN "False" ELSE "True">>
              /\ UNCHANGED <<cb_state, cb_successes, cb_half_open_successes>>
    /\ UNCHANGED <<cbConfig, cb_failures, cb_last_failure_time, cb_now,
                   cb_streak, cb_opened_at>>

RecoveredOneEarly(successes, threshold) == successes + 1 >= threshold

\* record_success while HALF_OPEN: self._successes[key] >= self.success_threshold
Recovered(successes, threshold) == successes >= threshold

\* CircuitBreaker.record_success
RecordSuccess(key) ==
    /\ IF cb_state[key] = "HALF_OPEN"
         THEN /\ cb_successes' = [cb_successes EXCEPT ![key] = @ + 1]
              /\ IF Recovered(cb_successes[key] + 1, cb_success_threshold)
                   THEN /\ cb_state' = [cb_state EXCEPT ![key] = "CLOSED"]
                        /\ cb_failures' = [cb_failures EXCEPT ![key] = 0]
                   ELSE UNCHANGED <<cb_state, cb_failures>>
         ELSE IF cb_state[key] = "CLOSED"
         THEN /\ cb_failures' = [cb_failures EXCEPT
                                   ![key] = FailuresAfterSuccess(@)]
              /\ UNCHANGED <<cb_state, cb_successes>>
         ELSE UNCHANGED <<cb_state, cb_successes, cb_failures>>
    /\ cb_streak' = [cb_streak EXCEPT ![key] = 0]
    /\ cb_half_open_successes' =
          [cb_half_open_successes EXCEPT
             ![key] = IF cb_state[key] = "HALF_OPEN" THEN @ + 1 ELSE @]
    /\ cb_last' = <<"record_success", key, "None">>
    /\ UNCHANGED <<cbConfig, cb_last_failure_time, cb_now, cb_opened_at>>

\* CircuitBreaker.record_failure
RecordFailure(key) ==
    /\ cb_failures[key] < MaxFailures
    /\ cb_failures' = [cb_failures EXCEPT ![key] = @ + 1]
    /\ cb_last_failure_time' = [cb_last_failure_time EXCEPT ![key] = cb_now]
    /\ cb_streak' = [cb_streak EXCEPT ![key] = @ + 1]
    /\ IF cb_state[key] = "HALF_OPEN"
         THEN /\ cb_state' = [cb_state EXCEPT ![key] = "OPEN"]
              /\ UNCHANGED cb_opened_at
         ELSE IF /\ cb_state[key] = "CLOSED"
                 /\ Trips(cb_failures[key] + 1, cb_failure_threshold)
         THEN /\ cb_state' = [cb_state EXCEPT ![key] = "OPEN"]
              /\ cb_opened_at' = [cb_opened_at EXCEPT
                                    ![key] = <<cb_streak[key] + 1>>]
         ELSE UNCHANGED <<cb_state, cb_opened_at>>
    /\ cb_last' = <<"record_failure", key, "None">>
    /\ UNCHANGED <<cbConfig, cb_successes, cb_now, cb_half_open_successes>>

(***************************************************************************)
(* BaseScraper: ownership of the HTTP client                               *)
(***************************************************************************)
MaxEnters == 6

\* the identity of the client a caller supplies
CallerClient == 0

NotInitialized == "HTTP client not initialized"

OwnsClientAlways(http_client) == TRUE

\* BaseScraper.__init__: self._owns_client = http_client is None
OwnsClient(http_client) == http_client = <<>>

\* HttpClient.start: self._client = httpx.AsyncClient(...)
HttpClientStart(open, id) == open \cup {id}

\* HttpClient.close: if self._client: aclose, self._client = None
HttpClientClose(open, id) == open \ {id}

ScIdle ==
    /\ sc_supplied = FALSE
    /\ sc_http_client = <<>>
    /\ sc_owns_client = TRUE
    /\ sc_constructed = 0
    /\ sc_open = {}
    /\ sc_closed_by_scraper = {}
    /\ sc_in_scope = FALSE
    /\ sc_enters = 0
    /\ sc_last = <<"none", "none">>

\* BaseScraper.__init__; a supplied client may or may not be started already
ScInit ==
    /\ sc_supplied \in BOOLEAN
    /\ sc_http_client = IF sc_supplied THEN <<CallerClient>> ELSE <<>>
    /\ sc_owns_client = OwnsClient(sc_http_client)
    /\ sc_constructed = 0
    /\ sc_open \in IF sc_supplied THEN {{}, {CallerClient}} ELSE {{}}
    /\ sc_closed_by_scraper = {}
    /\ sc_in_scope = FALSE
    /\ sc_enters = 0
    /\ sc_last = <<"none", "none">>

\* BaseScraper.__aenter__
ScEnter ==
    /\ ~sc_in_scope
    /\ sc_enters < MaxEnters
    /\ IF sc_owns_client
         THEN /\ sc_constructed' = sc_constructed + 1
              /\ sc_http_client' = <<sc_constructed + 1>>
              /\ sc_open' = HttpClientStart(sc_open, sc_constructed + 1)
         ELSE UNCHANGED <<sc_constructed, sc_http_client, sc_open>>
    /\ sc_in_scope' = TRUE
    /\ sc_enters' = sc_enters + 1
    /\ sc_last' = <<"enter", "self">>
    /\ UNCHANGED <<sc_supplied, sc_owns_client, sc_closed_by_scraper>>

\* BaseScraper.__aexit__
ScExit ==
    /\ sc_in_scope
    /\ IF sc_owns_client /\ sc_http_client # <<>>
         THEN /\ sc_open' = HttpClientClose(sc_open, sc_http_client[1])
              /\ sc_closed_by_scraper' =
                    sc_closed_by_scraper \cup {sc_http_client[1]}
         ELSE UNCHANGED <<sc_open, sc_closed_by_scraper>>
    /\ sc_in_scope' = FALSE
    /\ sc_last' = <<"exit", "None">>
    /\ UNCHANGED <<sc_supplied, sc_http_client, sc_owns_client,
                   sc_constructed, sc_enters>>

\* work: the http_client property, then HttpClient.get, which starts a client
\* whose _client is not set
ScWork ==
    /\ IF sc_http_client = <<>>
         THEN /\ sc_last' = <<"work", NotInitialized>>
              /\ UNCHANGED sc_open
         ELSE /\ sc_open' = HttpClientStart(sc_open, sc_http_client[1])
              /\ sc_last' = <<"work", "response">>
    /\ UNCHANGED <<sc_supplied, sc_http_client, sc_owns_client,
                   sc_constructed, sc_closed_by_scraper, sc_in_scope,
                   sc_enters>>

\* the caller starts or closes the client it supplied
ScCallerToggles ==
    /\ sc_supplied
    /\ sc_open' = IF CallerClient \in sc_open
                    THEN HttpClientClose(sc_open, CallerClient)
                    ELSE HttpClientStart(sc_open, CallerClient)
    /\ sc_last' = <<"caller", "None">>
    /\ UNCHANGED <<sc_supplied, sc_http_client, sc_owns_client,
                   sc_constructed, sc_closed_by_scraper, sc_in_scope,
                   sc_enters>>

(***************************************************************************)
(* RetryHandler._calculate_delay, in milliseconds                          *)
(***************************************************************************)
MaxAttempts == 7

\* defaults of RetryHandler.__init__
BaseDelay == 1000
MaxDelay == 60000
ExponentialBase == 2

\* the floor of the returned delay: max(0.1, delay)
MinDelay == 100

\* random.random() draws n / JitterDen, 0 <= n < JitterDen, of [0, 1)
JitterDen == 4
Draws == 0..(JitterDen - 1)

RECURSIVE Pow(_, _)
Pow(b, n) == IF n = 0 THEN 1 ELSE b * Pow(b, n - 1)

Min(a, b) == IF a <= b THEN a ELSE b

JitterHalf(delay, n) == (delay * 50 * (2 * n - JitterDen)) \div (100 * JitterDen)

\* jitter = delay * 0.25 * (2 * random.random() - 1)
Jitter(delay, n) == (delay * 25 * (2 * n - JitterDen)) \div (100 * JitterDen)

\* RetryHandler._calculate_delay
CalculateDelay(att, n) ==
    LET delay == BaseDelay * Pow(ExponentialBase, att)
    IN  Max(MinDelay, Min(delay + Jitter(delay, n), MaxDelay))

BoIdle ==
    /\ bo_attempt = 0
    /\ bo_delays = <<>>
    /\ bo_draws = <<>>

BoInit == BoIdle

\* _handle_retry calls _calculate_delay(attempt) for attempt 0, 1, 2, ...
BoCalculateDelay ==
    /\ bo_attempt < MaxAttempts
    /\ \E n \in Draws :
         /\ bo_delays' = Append(bo_delays, CalculateDelay(bo_attempt, n))
         /\ bo_draws' = Append(bo_draws, n)
    /\ bo_attempt' = bo_attempt + 1

(***************************************************************************)
(* HttpClient.get                                                          *)
(***************************************************************************)
MaxGets == 2

\* what self._client.get followed by raise_for_status does: a response, an
\* error RetryHandler retries, or an error it does not retry
RequestOutcomes == {"response", "retryable", "fatal"}

AfterRequestNoDelay(outcome, att, max) ==
    IF outcome = "response" THEN "returned"
    ELSE IF outcome = "retryable" /\ att < max THEN "execute"
    ELSE "raised"

\* where get continues after one self._make_request inside
\* retry_handler.execute: the delay when execute returned the response, the
\* next attempt when _handle_retry slept, the caller when an error leaves get
AfterRequest(outcome, att, max) ==
    IF outcome = "response" THEN "delay"
    ELSE IF outcome = "retryable" /\ att < max THEN "execute"
    ELSE "raised"

HgIdle ==
    /\ hg_pc = "idle"
    /\ hg_domain = "example.com"
    /\ hg_attempt = 0
    /\ hg_trace = <<>>
    /\ hg_acquires = [d \in Domains |-> 0]
    /\ hg_requests = [d \in Domains |-> 0]
    /\ hg_gets = 0

HgInit == HgIdle

\* get, up to the request: await self.rate_limiter.acquire(domain)
HgAcquire(domain) ==
    /\ hg_pc \in {"idle", "returned", "raised"}
    /\ hg_gets < MaxGets
    /\ hg_gets' = hg_gets + 1
    /\ hg_domain' = domain
    /\ hg_acquires' = [hg_acquires EXCEPT ![domain] = @ + 1]
    /\ hg_trace' = <<"acquire">>
    /\ hg_attempt' = 0
    /\ hg_pc' = "execute"
    /\ UNCHANGED hg_requests

\* one iteration of RetryHandler.execute around HttpClient._make_request
HgMakeRequest(outcome) ==
    /\ hg_pc = "execute"
    /\ hg_requests' = [hg_requests EXCEPT ![hg_domain] = @ + 1]
    /\ hg_pc' = AfterRequest(outcome, hg_attempt, SettingsMaxRetries)
    /\ IF hg_pc' = "execute"
         THEN /\ hg_trace' = hg_trace \o <<"request", "backoff">>
              /\ hg_attempt' = hg_attempt + 1
         ELSE /\ hg_trace' = Append(hg_trace, "request")
              /\ UNCHANGED hg_attempt
    /\ UNCHANGED <<hg_domain, hg_acquires, hg_gets>>

\* get, after the request: await self.delay_manager.wait(); return response
HgDelay ==
    /\ hg_pc = "delay"
    /\ hg_trace' = Append(hg_trace, "delay")
    /\ hg_pc' = "returned"
    /\ UNCHANGED <<hg_domain, hg_attempt, hg_acquires, hg_requests, hg_gets>>

(***************************************************************************)
(* AdaptiveRateLimiter.  Time is counted in half adjustment intervals.     *)
(***************************************************************************)
MaxSuccesses == 11
MaxErrors == 2
MaxArTime == 5

\* self._min_rpm, self._max_rpm, self._adjustment_interval (two half intervals)
MinRpm == 5
MaxRpmCeiling == 60
AdjustmentInterval == 2

\* the success count _maybe_adjust asks more than of before it speeds up
SpeedUpSuccesses == 10

InitialRpms == {3, 20, 100}
ArDomains == {"example.com"}
ErrorStatusCodes == {429, 500, 503}

\* int(current * 0.7): the binary floating-point product is just below the
\* integer for 90, 170 and 180 (current < 200)
Int07(current) ==
    (current * 7) \div 10 - (IF current \in {90, 170, 180} THEN 1 ELSE 0)

\* int(current * 1.2) (current < 200)
Int12(current) == (current * 12) \div 10

\* self._domain_rpm.get(domain, self.rpm)
CurrentRpm(domain) ==
    IF ar_domain_rpm[domain] = <<>> THEN ar_rpm ELSE ar_domain_rpm[domain][1]

\* _slow_down: new_rpm
SlowedRpm(current) == Max(MinRpm, Int07(current))

\* _speed_up: new_rpm
SpedUpRpm(current) == Min(MaxRpmCeiling, Int12(current))

\* _slow_down / _speed_up: if new_rpm != current: self._domain_rpm[domain] = new_rpm
SetRpm(domain, new_rpm) ==
    IF new_rpm # CurrentRpm(domain)
      THEN /\ ar_domain_rpm' = [ar_domain_rpm EXCEPT ![domain] = <<new_rpm>>]
           /\ ar_set_values' = ar_set_values \cup {new_rpm}
      ELSE UNCHANGED <<ar_domain_rpm, ar_set_values>>

ArIdle ==
    /\ ar_rpm = 0
    /\ ar_domain_rpm = [d \in ArDomains |-> <<>>]
    /\ ar_success = [d \in ArDomains |-> 0]
    /\ ar_errors = [d \in ArDomains |-> 0]
    /\ ar_last_adjustment = [d \in ArDomains |-> 0]
    /\ ar_now = 0
    /\ ar_set_values = {}

\* AdaptiveRateLimiter.__init__; time() is at least one interval after 0
ArInit ==
    /\ ar_rpm \in InitialRpms
    /\ ar_domain_rpm = [d \in ArDomains |-> <<>>]
    /\ ar_success = [d \in ArDomains |-> 0]
    /\ ar_errors = [d \in ArDomains |-> 0]
    /\ ar_last_adjustment = [d \in ArDomains |-> 0]
    /\ ar_now = AdjustmentInterval
    /\ ar_set_values = {}

ArTick ==
    /\ ar_now < MaxArTime
    /\ ar_now' = ar_now + 1
    /\ UNCHANGED <<ar_rpm, ar_domain_rpm, ar_success, ar_errors,
                   ar_last_adjustment, ar_set_values>>

\* AdaptiveRateLimiter.record_success, with _maybe_adjust
ArRecordSuccess(domain) ==
    /\ ar_success[domain] < MaxSuccesses
    /\ ar_success' = [ar_success EXCEPT ![domain] = @ + 1]
    /\ IF ar_now - ar_last_adjustment[domain] < AdjustmentInterval
         THEN UNCHANGED <<ar_last_adjustment, ar_domain_rpm, ar_set_values>>
         ELSE /\ ar_last_adjustment' =
                    [ar_last_adjustment EXCEPT ![domain] = ar_now]
              /\ LET success == ar_success[domain] + 1
                     errors == ar_errors[domain]
                 IN  IF errors = 0 /\ success > SpeedUpSuccesses
                       THEN SetRpm(domain, SpedUpRpm(CurrentRpm(domain)))
                     ELSE IF errors > 0 /\ 10 * errors > success + errors
                       THEN SetRpm(domain, SlowedRpm(CurrentRpm(domain)))
                     ELSE UNCHANGED <<ar_domain_rpm, ar_set_values>>
    /\ UNCHANGED <<ar_rpm, ar_errors, ar_now>>

\* AdaptiveRateLimiter.record_error
ArRecordError(domain, status_code) ==
    /\ ar_errors[domain] < MaxErrors
    /\ ar_errors' = [ar_errors EXCEPT ![domain] = @ + 1]
    /\ IF status_code \in {429, 503}
         THEN SetRpm(domain, SlowedRpm(CurrentRpm(domain)))
         ELSE UNCHANGED <<ar_domain_rpm, ar_set_values>>
    /\ UNCHANGED <<ar_rpm, ar_success, ar_last_adjustment, ar_now>>

(***************************************************************************)
(* TrustpilotScraper.get_pagination_urls.  A url is <<"base", 1>> for      *)
(* base_url and <<"page", n>> for "<base>?page=n".                         *)
(***************************************************************************)
\* max_pages = max_pages or 100
DefaultMaxPages == 100

\* _get_total_pages: reviews per page, pages assumed behind a 'next' control
ReviewsPerPage == 20
NextButtonPages == 50

LinkPages == {<<>>, <<1>>, <<2>>, <<3>>}
ReviewCounts == {<<>>, <<15>>, <<21>>, <<45>>}
MaxPagesArgs == {<<>>, <<1>>, <<2>>, <<3>>}

\* TrustpilotScraper._get_total_pages
GetTotalPages(link_pages, review_count, next_button) ==
    IF link_pages # <<>> THEN link_pages[1]
    ELSE IF review_count # <<>> /\ review_count[1] > ReviewsPerPage
      THEN (review_count[1] + 19) \div ReviewsPerPage
    ELSE IF next_button THEN NextButtonPages
    ELSE 1

\* get_pagination_urls: the number of pages after the fallback and the limit
PagesToVisit(total_pages, max_pages) ==
    Min(IF total_pages <= 1 THEN max_pages ELSE total_pages, max_pages)

\* TrustpilotScraper.get_pagination_urls
TrustpilotPaginationUrls(link_pages, review_count, next_button, max_pages_arg, fails) ==
    LET max_pages == IF max_pages_arg = <<>> \/ max_pages_arg[1] = 0
                       THEN DefaultMaxPages ELSE max_pages_arg[1]
        total_pages == PagesToVisit(
                         GetTotalPages(link_pages, review_count, next_button),
                         max_pages)
    IN  IF fails THEN << <<"base", 1>> >>
        ELSE << <<"base", 1>> >> \o [i \in 1..(total_pages - 1) |-> <<"page", i + 1>>]

TpIdle ==
    /\ tp_link_pages = <<>>
    /\ tp_total_reviews = <<>>
    /\ tp_next_button = FALSE
    /\ tp_max_pages = <<>>
    /\ tp_fetch_fails = FALSE
    /\ tp_pc = "idle"
    /\ tp_urls = <<>>

TpInit ==
    /\ tp_link_pages \in LinkPages
    /\ tp_total_reviews \in ReviewCounts
    /\ tp_next_button \in BOOLEAN
    /\ tp_max_pages \in MaxPagesArgs
    /\ tp_fetch_fails \in BOOLEAN
    /\ tp_pc = "call"
    /\ tp_urls = <<>>

TpGetPaginationUrls ==
    /\ tp_pc = "call"
    /\ tp_urls' = TrustpilotPaginationUrls(tp_link_pages, tp_total_reviews,
                                    tp_next_button, tp_max_pages, tp_fetch_fails)
    /\ tp_pc' = "done"
    /\ UNCHANGED <<tp_link_pages, tp_total_reviews, tp_next_button,
                   tp_max_pages, tp_fetch_fails>>

(***************************************************************************)
(* ReviewPipeline: the counters of process and process_stream.  A review   *)
(* is given by what _process_one does with it.                             *)
(***************************************************************************)
MaxStatCalls == 3
MaxListLen == 2

\* _process_one: the review is returned, or dropped at one of the three
\* places that count
ProcessOutcomes == {"returned", "filtered_length", "deduplicated",
                    "filtered_quality"}

ReviewBatches == UNION {[1..n -> ProcessOutcomes] : n \in 0..MaxListLen}

\* the counters after _process_one for each review of the batch
RECURSIVE AfterProcessOne(_, _)
AfterProcessOne(stats, batch) ==
    IF batch = <<>> THEN stats
    ELSE AfterProcessOne(
           IF Head(batch) = "returned" THEN stats
           ELSE [stats EXCEPT ![Head(batch)] = @ + 1],
           Tail(batch))

Returned(batch) == SelectSeq(batch, LAMBDA o : o = "returned")

PsIdle ==
    /\ ps_stats = [input |-> 0, output |-> 0, filtered_length |-> 0,
                   deduplicated |-> 0, filtered_quality |-> 0]
    /\ ps_calls = 0
    /\ ps_last = "none"

PsInit == PsIdle

\* ReviewPipeline.process
PsProcess(batch) ==
    /\ ps_calls < MaxStatCalls
    /\ ps_calls' = ps_calls + 1
    /\ LET counted == [ps_stats EXCEPT !.input = @ + Len(batch)]
           processed == AfterProcessOne(counted, batch)
       IN  ps_stats' = [processed EXCEPT !.output = @ + Len(Returned(batch))]
    /\ ps_last' = "process"

\* ReviewPipeline.process_stream, consumed to its end
PsProcessStream(batch) ==
    /\ ps_calls < MaxStatCalls
    /\ ps_calls' = ps_calls + 1
    /\ ps_stats' = AfterProcessOne(ps_stats, batch)
    /\ ps_last' = "process_stream"

(***************************************************************************)
(* SteamScraper.scrape_reviews                                             *)
(***************************************************************************)
MaxSteamMax == 3
MaxSteamRequests == 3
MaxSteamBatch == 3

\* _parse_api_reviews: the reviews parsed from the response of one request
SteamBatch(request, n) == [i \in 1..n |-> <<request, i>>]

\* if max_reviews and len(reviews) >= max_reviews
SteamLimitReached(revs, max) == max # <<>> /\ max[1] # 0 /\ Len(revs) >= max[1]

StIdle ==
    /\ st_max_reviews = <<>>
    /\ st_has_app_id = FALSE
    /\ st_pc = "idle"
    /\ st_reviews = <<>>
    /\ st_requests = 0
    /\ st_returned = <<>>

StInit ==
    /\ st_max_reviews \in {<<>>} \cup {<<m>> : m \in 1..MaxSteamMax}
    /\ st_has_app_id \in BOOLEAN
    /\ st_pc = "call"
    /\ st_reviews = <<>>
    /\ st_requests = 0
    /\ st_returned = <<>>

\* scrape_reviews up to the loop: app_id = self._extract_app_id(url)
StExtractAppId ==
    /\ st_pc = "call"
    /\ st_pc' = IF st_has_app_id THEN "loop" ELSE "returned"
    /\ UNCHANGED <<st_max_reviews, st_has_app_id, st_reviews, st_requests,
                   st_returned>>

\* one iteration of the loop with a response parsed as JSON
StResponse(success, n, cursor) ==
    /\ st_pc = "loop"
    /\ st_requests < MaxSteamRequests
    /\ st_requests' = st_requests + 1
    /\ IF ~success
         THEN /\ st_reviews' = st_reviews
              /\ st_returned' = st_reviews
              /\ st_pc' = "returned"
         ELSE LET extended == st_reviews \o SteamBatch(st_requests + 1, n)
              IN  IF ~cursor \/ n = 0
                    THEN /\ st_reviews' = extended
                         /\ st_returned' = extended
                         /\ st_pc' = "returned"
                  ELSE IF SteamLimitReached(extended, st_max_reviews)
                    THEN /\ st_reviews' = SubSeq(extended, 1, st_max_reviews[1])
                         /\ st_returned' = st_reviews'
                         /\ st_pc' = "returned"
                  ELSE /\ st_reviews' = extended
                       /\ st_pc' = "loop"
                       /\ UNCHANGED st_returned
    /\ UNCHANGED <<st_max_reviews, st_has_app_id>>

\* the request or response.json() raises: except Exception: return []
StRequestRaises ==
    /\ st_pc = "loop"
    /\ st_requests < MaxSteamRequests
    /\ st_requests' = st_requests + 1
    /\ st_returned' = <<>>
    /\ st_pc' = "returned"
    /\ UNCHANGED <<st_max_reviews, st_has_app_id, st_reviews>>

(***************************************************************************)
(* Specifications                                                          *)
(***************************************************************************)
CoreIdle == PageIdle /\ RetryIdle /\ LimIdle /\ StoIdle

ExtIdle == PipeIdle /\ RevIdle /\ JsIdle /\ CliIdle /\ CampIdle /\
    CbIdle /\ ScIdle /\ BoIdle /\ HgIdle /\ ArIdle /\ TpIdle /\ PsIdle /\
    StIdle

InitPages == PageInit /\ RetryIdle /\ LimIdle /\ StoIdle /\ ExtIdle

NextPages ==
    \/ GetPaginationUrls /\ UNCHANGED notPageVars
    \/ ScrapePage /\ UNCHANGED notPageVars
    \/ YieldReview /\ UNCHANGED notPageVars
    \/ ResumeAfterYield /\ UNCHANGED notPageVars
    \/ PageDone /\ UNCHANGED notPageVars
    \/ Completed /\ UNCHANGED notPageVars

SpecPages == InitPages /\ [][NextPages]_vars

InitRetry == RetryInit /\ PageIdle /\ LimIdle /\ StoIdle /\ ExtIdle

NextRetry ==
    \/ AttemptReturns /\ UNCHANGED notRetryVars
    \/ AttemptFailsRetryable /\ UNCHANGED notRetryVars
    \/ AttemptFailsFatal /\ UNCHANGED notRetryVars

SpecRetry == InitRetry /\ [][NextRetry]_vars

InitLimiter == LimInit /\ PageIdle /\ RetryIdle /\ StoIdle /\ ExtIdle

NextLimiter ==
    \/ Tick /\ UNCHANGED notLimVars
    \/ AcquireAny /\ UNCHANGED notLimVars

SpecLimiter == InitLimiter /\ [][NextLimiter]_vars

InitStorage == StoInit /\ PageIdle /\ RetryIdle /\ LimIdle /\ ExtIdle

NextStorage ==
    \/ InitializeResume /\ UNCHANGED notStoVars
    \/ InitializeFresh /\ UNCHANGED notStoVars
    \/ AddReview /\ UNCHANGED notStoVars
    \/ Flush /\ UNCHANGED notStoVars
    \/ MarkUrlComplete /\ UNCHANGED notStoVars
    \/ MarkUrlStarted /\ UNCHANGED notStoVars
    \/ RecordError /\ UNCHANGED notStoVars
    \/ Finalize /\ UNCHANGED notStoVars
    \/ Restart /\ UNCHANGED notStoVars

SpecStorage == InitStorage /\ [][NextStorage]_vars
InitPipeline ==
    PipeInit /\ CoreIdle /\ RevIdle /\ JsIdle /\ CliIdle /\ CampIdle /\
    CbIdle /\ ScIdle /\ BoIdle /\ HgIdle /\ ArIdle /\ TpIdle /\ PsIdle /\
    StIdle

NextPipeline ==
    \/ AddTransform /\ UNCHANGED notPipeVars
    \/ ProcessOne /\ UNCHANGED notPipeVars
    \/ ResetDeduplicator /\ UNCHANGED notPipeVars

SpecPipeline == InitPipeline /\ [][NextPipeline]_vars

InitReview ==
    RevInit /\ CoreIdle /\ PipeIdle /\ JsIdle /\ CliIdle /\ CampIdle /\
    CbIdle /\ ScIdle /\ BoIdle /\ HgIdle /\ ArIdle /\ TpIdle /\ PsIdle /\
    StIdle

NextReview ==
    \/ CreateRaises /\ UNCHANGED notRevVars
    \/ CreateReturns /\ UNCHANGED notRevVars
    \/ ExportOne /\ UNCHANGED notRevVars
    \/ ExportBatch /\ UNCHANGED notRevVars

SpecReview == InitReview /\ [][NextReview]_vars

InitJson ==
    JsInit /\ CoreIdle /\ PipeIdle /\ RevIdle /\ CliIdle /\ CampIdle /\
    CbIdle /\ ScIdle /\ BoIdle /\ HgIdle /\ ArIdle /\ TpIdle /\ PsIdle /\
    StIdle

NextJson ==
    \/ JsSave /\ UNCHANGED notJsVars
    \/ JsLoad /\ UNCHANGED notJsVars

SpecJson == InitJson /\ [][NextJson]_vars

InitCli ==
    CliInit /\ CoreIdle /\ PipeIdle /\ RevIdle /\ JsIdle /\ CampIdle /\
    CbIdle /\ ScIdle /\ BoIdle /\ HgIdle /\ ArIdle /\ TpIdle /\ PsIdle /\
    StIdle

NextCli ==
    \/ CliStartUrl /\ UNCHANGED notCliVars
    \/ CliReview /\ UNCHANGED notCliVars
    \/ CliGeneratorEnds /\ UNCHANGED notCliVars
    \/ CliGeneratorRaises /\ UNCHANGED notCliVars
    \/ CliAfterUrl /\ UNCHANGED notCliVars

SpecCli == InitCli /\ [][NextCli]_vars

InitCampaign ==
    CampInit /\ CoreIdle /\ PipeIdle /\ RevIdle /\ JsIdle /\ CliIdle /\
    CbIdle /\ ScIdle /\ BoIdle /\ HgIdle /\ ArIdle /\ TpIdle /\ PsIdle /\
    StIdle

NextCampaign ==
    \/ CampNextSource /\ UNCHANGED notCampVars
    \/ CampLoopEnds /\ UNCHANGED notCampVars
    \/ CampSourceDone /\ UNCHANGED notCampVars
    \/ CampSave /\ UNCHANGED notCampVars
    \/ CampFirstInterrupt /\ UNCHANGED notCampVars
    \/ CampSecondInterrupt /\ UNCHANGED notCampVars

SpecCampaign == InitCampaign /\ [][NextCampaign]_vars

InitBreaker ==
    CbInit /\ CoreIdle /\ PipeIdle /\ RevIdle /\ JsIdle /\ CliIdle /\
    CampIdle /\ ScIdle /\ BoIdle /\ HgIdle /\ ArIdle /\ TpIdle /\ PsIdle /\
    StIdle

NextBreaker ==
    \/ CbTick /\ UNCHANGED notCbVars
    \/ \E key \in Keys : CanProceed(key) /\ UNCHANGED notCbVars
    \/ \E key \in Keys : RecordSuccess(key) /\ UNCHANGED notCbVars
    \/ \E key \in Keys : RecordFailure(key) /\ UNCHANGED notCbVars

SpecBreaker == InitBreaker /\ [][NextBreaker]_vars

InitScraper ==
    ScInit /\ CoreIdle /\ PipeIdle /\ RevIdle /\ JsIdle /\ CliIdle /\
    CampIdle /\ CbIdle /\ BoIdle /\ HgIdle /\ ArIdle /\ TpIdle /\ PsIdle /\
    StIdle

NextScraper ==
    \/ ScEnter /\ UNCHANGED notScVars
    \/ ScExit /\ UNCHANGED notScVars
    \/ ScWork /\ UNCHANGED notScVars
    \/ ScCallerToggles /\ UNCHANGED notScVars

SpecScraper == InitScraper /\ [][NextScraper]_vars

InitBackoff ==
    BoInit /\ CoreIdle /\ PipeIdle /\ RevIdle /\ JsIdle /\ CliIdle /\
    CampIdle /\ CbIdle /\ ScIdle /\ HgIdle /\ ArIdle /\ TpIdle /\ PsIdle /\
    StIdle

NextBackoff ==
    \/ BoCalculateDelay /\ UNCHANGED notBoVars

SpecBackoff == InitBackoff /\ [][NextBackoff]_vars

InitHttpGet ==
    HgInit /\ CoreIdle /\ PipeIdle /\ RevIdle /\ JsIdle /\ CliIdle /\
    CampIdle /\ CbIdle /\ ScIdle /\ BoIdle /\ ArIdle /\ TpIdle /\ PsIdle /\
    StIdle

NextHttpGet ==
    \/ \E domain \in Domains : HgAcquire(domain) /\ UNCHANGED notHgVars
    \/ \E outcome \in RequestOutcomes :
          HgMakeRequest(outcome) /\ UNCHANGED notHgVars
    \/ HgDelay /\ UNCHANGED notHgVars

SpecHttpGet == InitHttpGet /\ [][NextHttpGet]_vars

InitAdaptive ==
    ArInit /\ CoreIdle /\ PipeIdle /\ RevIdle /\ JsIdle /\ CliIdle /\
    CampIdle /\ CbIdle /\ ScIdle /\ BoIdle /\ HgIdle /\ TpIdle /\ PsIdle /\
    StIdle

NextAdaptive ==
    \/ ArTick /\ UNCHANGED notArVars
    \/ \E domain \in ArDomains : ArRecordSuccess(domain) /\ UNCHANGED notArVars
    \/ \E domain \in ArDomains, status_code \in ErrorStatusCodes :
          ArRecordError(domain, status_code) /\ UNCHANGED notArVars

SpecAdaptive == InitAdaptive /\ [][NextAdaptive]_vars

InitTrustpilot ==
    TpInit /\ CoreIdle /\ PipeIdle /\ RevIdle /\ JsIdle /\ CliIdle /\
    CampIdle /\ CbIdle /\ ScIdle /\ BoIdle /\ HgIdle /\ ArIdle /\ PsIdle /\
    StIdle

NextTrustpilot ==
    \/ TpGetPaginationUrls /\ UNCHANGED notTpVars

SpecTrustpilot == InitTrustpilot /\ [][NextTrustpilot]_vars

InitStats ==
    PsInit /\ CoreIdle /\ PipeIdle /\ RevIdle /\ JsIdle /\ CliIdle /\
    CampIdle /\ CbIdle /\ ScIdle /\ BoIdle /\ HgIdle /\ ArIdle /\ TpIdle /\
    StIdle

NextStats ==
    \/ \E batch \in ReviewBatches : PsProcess(batch) /\ UNCHANGED notPsVars
    \/ \E batch \in ReviewBatches : PsProcessStream(batch) /\ UNCHANGED notPsVars

SpecStats == InitStats /\ [][NextStats]_vars

InitSteam ==
    StInit /\ CoreIdle /\ PipeIdle /\ RevIdle /\ JsIdle /\ CliIdle /\
    CampIdle /\ CbIdle /\ ScIdle /\ BoIdle /\ HgIdle /\ ArIdle /\ TpIdle /\
    PsIdle

NextSteam ==
    \/ StExtractAppId /\ UNCHANGED notStVars
    \/ \E success \in BOOLEAN, n \in 0..MaxSteamBatch, cursor \in BOOLEAN :
          StResponse(success, n, cursor) /\ UNCHANGED notStVars
    \/ StRequestRaises /\ UNCHANGED notStVars

SpecSteam == InitSteam /\ [][NextSteam]_vars

(***************************************************************************)
(* C1: with max_reviews = m >= 1, scrape_all_pages yields at most m        *)
(* reviews, and once the m-th review has been yielded scrape_reviews is    *)
(* not called for any further page: the last page scrape_reviews was       *)
(* called for is the page the m-th review came from.                       *)
(***************************************************************************)
C1_MaxReviewsBound ==
    max_reviews >= 1 =>
        /\ Len(yielded) <= max_reviews
        /\ Len(yielded) = max_reviews => Len(calls) = yielded[max_reviews][1]

C1_Witness ==
    /\ pc = "limit"
    /\ max_reviews >= 2
    /\ Len(yielded) = max_reviews
    /\ page_num < Len(pages)
    /\ rev_idx < Len(reviews)

(***************************************************************************)
(* C2: when scrape_reviews raises for a page, that page contributes no     *)
(* review, the error does not reach the consumer, and the loop goes on:    *)
(* scrape_reviews is called for the pages in the order of the resolved     *)
(* list, and a run that ends by exhausting the loop (not by the            *)
(* max_reviews stop) has called it for every page.                         *)
(***************************************************************************)
C2_PageFailureSkipped ==
    /\ pc # "raised"
    /\ Len(calls) = page_num
    /\ \A i \in 1..Len(calls) : calls[i] = pages[i]
    /\ \A i \in 1..Len(yielded) : yielded[i][1] \notin failed
    /\ pc = "done" => Len(calls) = Len(pages)

C2_Witness ==
    /\ pc = "done"
    /\ 1 \in failed
    /\ Len(calls) = 3
    /\ \E i \in 1..Len(yielded) : yielded[i][1] = 2

(***************************************************************************)
(* C3: a RetryHandler built with max_retries = n (any n >= 0) whose        *)
(* operation fails with a retryable error on every call invokes the        *)
(* operation exactly n + 1 times and then re-raises the last error.        *)
(***************************************************************************)
AllRetryableFailures ==
    \A i \in 1..Len(outcomes) :
        \/ outcomes[i][1] = "exc"
        \/ outcomes[i][1] = "status" /\ outcomes[i][2] \in RETRYABLE_STATUS_CODES

C3_ExactlyNPlusOneCalls ==
    (arg_max_retries # NoneArg /\ AllRetryableFailures) =>
        /\ Len(outcomes) <= arg_max_retries[1] + 1
        /\ Len(outcomes) = arg_max_retries[1] + 1 =>
              rh_pc = "raised" /\ raised_error = outcomes[Len(outcomes)]
        /\ rh_pc = "raised" => Len(outcomes) = arg_max_retries[1] + 1

(***************************************************************************)
(* C4: an HTTP status error whose code is not in {408, 429, 500, 502, 503, *)
(* 504} ends execute at once: it is the last invocation, it is raised to   *)
(* the caller, no backoff sleep follows it and the attempt counter is not  *)
(* advanced for it; when it is the first outcome the operation has been    *)
(* invoked exactly once and no sleep has happened at all.                  *)
(***************************************************************************)
C4_NonRetryableRaisedImmediately ==
    \A k \in 1..Len(outcomes) :
        (outcomes[k][1] = "status" /\ outcomes[k][2] \notin RETRYABLE_STATUS_CODES) =>
            /\ k = Len(outcomes)
            /\ rh_pc = "raised"
            /\ raised_error = outcomes[k]
            /\ sleeps = k - 1
            /\ attempt = k - 1

C4_Witness ==
    /\ rh_pc = "raised"
    /\ Len(outcomes) = 1
    /\ outcomes[1][1] = "status"
    /\ outcomes[1][2] \notin RETRYABLE_STATUS_CODES
    /\ sleeps = 0

(***************************************************************************)
(* C5: a RateLimiter at rpm requests per minute never lets more than rpm   *)
(* acquire(domain) calls complete within any rolling 60-second window      *)
(* (here: the 60 seconds that end with an acquisition) for one domain, and *)
(* each domain's bucket is the result of that domain's own acquisitions    *)
(* alone.                                                                  *)
(***************************************************************************)
InWindow(d, i) ==
    {j \in 1..Len(acq_times[d]) :
        /\ acq_times[d][j] > acq_times[d][i] - TimePeriod
        /\ acq_times[d][j] <= acq_times[d][i]}

RECURSIVE LevelAfter(_, _, _)
\* the bucket level at time t that the acquisitions at `times` alone produce
LevelAfter(times, k, t) ==
    IF k = 0 THEN 0
    ELSE Leak(LevelAfter(times, k - 1, times[k]) + TimePeriod, t - times[k], rpm)

C5_AtMostRpmPerWindow ==
    \A d \in Domains :
        /\ \A i \in 1..Len(acq_times[d]) : Cardinality(InWindow(d, i)) <= rpm
        /\ d \in limiters =>
              Leak(lim_level[d], now - lim_last_check[d], rpm)
                  = LevelAfter(acq_times[d], Len(acq_times[d]), now)

(***************************************************************************)
(* Helpers of the storage claims.                                          *)
(***************************************************************************)
ExportOf(revs) == [i \in 1..Len(revs) |-> ToExportDict(revs[i])]

IsPrefix(s, t) == Len(s) <= Len(t) /\ \A i \in 1..Len(s) : s[i] = t[i]

\* number of reviews this instance got from the data file when it resumed
LoadedCount == IF resumed THEN Len(ParseItems(persisted_at_resume, runs)) ELSE 0

\* number of add_review calls on this instance (one factory id per call)
AddCalls == next_id - 1

(***************************************************************************)
(* C6: with batch_size = B an add_review call flushes exactly when it      *)
(* brings the buffer to B reviews, and then flushes those B reviews once:  *)
(* the buffer never holds B reviews after a call, a call that flushed      *)
(* flushed exactly B, a call that did not left its review buffered; with   *)
(* no flush() or finalize() in between these are the B-th, 2B-th, ...      *)
(* calls.  finalize flushes whatever is still buffered: afterwards the     *)
(* buffer is empty and no review of the instance is missing.               *)
(***************************************************************************)
C6_AutoFlushAtBatchSize ==
    inst = "ready" =>
        /\ Len(buffer) < batch_size
        /\ Len(all_reviews) + Len(buffer) = LoadedCount + AddCalls
        /\ last_op = "add_review" =>
              IF buffer = <<>>
              THEN last_flushed = batch_size /\ data_file = <<ExportOf(all_reviews)>>
              ELSE last_flushed = 0
        /\ ~explicit_flush =>
              /\ Len(buffer) = AddCalls % batch_size
              /\ Len(all_reviews) = LoadedCount + AddCalls - (AddCalls % batch_size)
        /\ last_op = "finalize" =>
              /\ buffer = <<>>
              /\ last_flushed > 0 => data_file = <<ExportOf(all_reviews)>>

C6_Witness ==
    /\ last_op = "add_review"
    /\ batch_size = 2
    /\ AddCalls = 2
    /\ last_flushed = 2
    /\ ~explicit_flush
    /\ Len(data_file[1]) = 2

InExactlyOneList(cp, u) ==
    (u \in Range(cp.urls_completed)) # (u \in Range(cp.urls_pending))

C8_EveryUrlInExactlyOneList ==
    inst = "ready" =>
        \A u \in Range(fresh_urls) :
            /\ InExactlyOneList(checkpoint[1], u)
            /\ ckpt_file # NoFile => InExactlyOneList(ckpt_file[1], u)

(***************************************************************************)
(* C9: the checkpoint file is deleted only by a finalize call that finds   *)
(* urls_pending empty: a finalize with urls still pending, the other       *)
(* operations, and a process that stops without finalize leave it in place.*)
(***************************************************************************)
C9_CheckpointDeletedOnlyByFinalize ==
    [][(ckpt_file # NoFile /\ ckpt_file' = NoFile) =>
          (last_op' = "finalize" /\ checkpoint'[1].urls_pending = <<>>)]_vars

C9_Witness ==
    /\ last_op = "finalize"
    /\ ckpt_file = NoFile
    /\ checkpoint[1].urls_completed = <<"u1", "u2">>
    /\ data_file # NoFile

(***************************************************************************)
(* C10: initialize on a directory with the checkpoint file of an           *)
(* interrupted run restores the checkpoint and reloads every review that   *)
(* was flushed to the data file, so that those reviews are still in the    *)
(* data file after any later flush; without a checkpoint file it creates   *)
(* one with every given url pending and none completed.                    *)
(***************************************************************************)
C10_ResumeRestoresAndKeepsReviews ==
    /\ (last_op = "initialize" /\ resumed) =>
          /\ checkpoint = ckpt_file
          /\ ExportOf(all_reviews) = persisted_at_resume
    /\ (inst = "ready" /\ resumed /\ persisted_at_resume # <<>>) =>
          /\ data_file # NoFile
          /\ IsPrefix(persisted_at_resume, data_file[1])
    /\ (last_op = "initialize" /\ ~resumed) =>
          /\ ckpt_file = checkpoint
          /\ checkpoint[1].urls_pending = fresh_urls
          /\ checkpoint[1].urls_completed = <<>>

(***************************************************************************)
(* C11: _process_one handles a review in the fixed order clean, length     *)
(* filter, duplicate check, transforms in registration order: the steps a  *)
(* call takes are a prefix of that order; with cleaning enabled the        *)
(* deduplicator is asked about the cleaned text, so of two reviews whose   *)
(* raw texts clean to the same text the later one is dropped as a          *)
(* duplicate; a review the length filter rejects is not registered as seen *)
(* and reaches no transform.                                               *)
(***************************************************************************)
PipelineOrder(clean, dedupe, ts) ==
    (IF clean THEN <<<<"clean", 0>>>> ELSE <<>>) \o <<<<"length", 0>>>>
      \o (IF dedupe THEN <<<<"dedupe", 0>>>> ELSE <<>>)
      \o [k \in 1..Len(ts) |-> <<"transform", k>>]

PassedDedup(e) == e.outcome \in {"filtered_quality", "returned"}

C12_FirstPassesLaterDropped ==
    pl_dedupe =>
        \A j \in 1..Len(pl_log) :
            (pl_log[j].outcome = "deduplicated") <=>
                (/\ pl_log[j].outcome # "filtered_length"
                 /\ \E i \in 1..(j - 1) : pl_log[i].text = pl_log[j].text)

\* a text that had passed before a reset passes again after it, and its
\* next occurrence is dropped
C12_Witness ==
    /\ pl_dedupe
    /\ Len(pl_log) = 2
    /\ pl_log[1].text \in pl_old
    /\ PassedDedup(pl_log[1])
    /\ pl_log[2].text = pl_log[1].text
    /\ pl_log[2].outcome = "deduplicated"

(***************************************************************************)
(* C13: constructing a Review with empty text fails, and so does           *)
(* constructing one with whitespace-only text: a create call whose text    *)
(* strips to the empty text returns no review, and no created Review has   *)
(* empty text.                                                             *)
(***************************************************************************)
C13_NoReviewWithEmptyText ==
    /\ (rv_last # <<>> /\ Strip(rv_last[1].raw) = <<>>) =>
          rv_last[1].returned = <<>>
    /\ \A f \in Factories :
          \A i \in 1..Len(rv_created[f]) : rv_created[f][i].review.text # <<>>

(***************************************************************************)
(* C14: the export projection of a Review constructed with id n and        *)
(* non-empty text s, by to_export_dict and as an element of                *)
(* to_export_list, is exactly the record with the two keys id = n and      *)
(* text = s stripped, whatever metadata the review carries.                *)
(***************************************************************************)
C14_ExportIsIdAndStrippedText ==
    rv_export # <<>> =>
        LET x == rv_export[1]
        IN  /\ Len(x.result) = Len(x.of)
            /\ \A i \in 1..Len(x.of) :
                  x.result[i] = [id |-> x.of[i].id, text |-> Strip(x.of[i].raw)]

\* a batch with a padded text and a review that carries metadata was exported
C14_Witness ==
    /\ rv_export # <<>>
    /\ Len(rv_export[1].of) >= 2
    /\ \E i \in 1..Len(rv_export[1].of) :
          /\ rv_export[1].of[i].raw = <<" ", "a", " ">>
          /\ "rating" \in DOMAIN rv_export[1].of[i].review
    /\ \E i \in 1..Len(rv_export[1].of) :
          "rating" \notin DOMAIN rv_export[1].of[i].review

(***************************************************************************)
(* C15: the i-th review a ReviewFactory started at id s returns has id     *)
(* s + i - 1, whatever the other factory has done.                         *)
(***************************************************************************)
C15_IdsInCallOrder ==
    \A f \in Factories :
        \A i \in 1..Len(rv_created[f]) :
            /\ rv_created[f][i].id = rv_start[f] + i - 1
            /\ rv_created[f][i].review.id = rv_created[f][i].id

\* two factories with different starting ids have both created reviews, and
\* the last create call raised
C15_Witness ==
    /\ rv_start["f1"] = 5 /\ rv_start["f2"] = 1
    /\ Len(rv_created["f1"]) = 2 /\ Len(rv_created["f2"]) = 1
    /\ rv_last # <<>> /\ rv_last[1].returned = <<>>

(***************************************************************************)
(* C16: a load that follows the save of a non-empty list of reviews        *)
(* returns, in full-metadata mode, reviews equal to the saved ones in      *)
(* every populated field, and in minimal mode as many reviews as were      *)
(* saved, with the ids and texts of the saved ones and no other field than *)
(* the scrape timestamp every Review has.                                  *)
(***************************************************************************)
C16_SaveLoadRoundTrip ==
    (js_loaded # <<>> /\ js_saved # <<>> /\ js_saved[1] # <<>>) =>
        LET saved == js_saved[1]
            loaded == js_loaded[1]
        IN  IF js_include_metadata
              THEN loaded = saved
              ELSE /\ Len(loaded) = Len(saved)
                   /\ \A i \in 1..Len(saved) :
                        /\ loaded[i].id = saved[i].id
                        /\ loaded[i].text = saved[i].text
                        /\ DOMAIN loaded[i] \subseteq {"id", "text", "scraped_at"}

(***************************************************************************)
(* C17: with --max m >= 1 the scrape command never holds more than m       *)
(* reviews in all_reviews, over all of its urls together, and every url it *)
(* starts to scrape is started with fewer than m reviews collected.        *)
(***************************************************************************)
C17_MaxBoundsAllUrls ==
    cli_max >= 1 =>
        /\ Len(cli_all) <= cli_max
        /\ \A k \in 1..Len(cli_started) : cli_started[k] < cli_max

\* the limit was reached with reviews of two urls, and a url was left unscraped
C17_Witness ==
    /\ cli_max = 2
    /\ cli_pc = "collected"
    /\ Len(cli_all) = 2
    /\ cli_all[1][1] # cli_all[2][1]
    /\ cli_idx < cli_urls

(***************************************************************************)
(* C18: a campaign script exits from its interrupt handler on the second   *)
(* interrupt only (the first one lets the current source finish), and when *)
(* it has exited that way every review of the sources finished so far is   *)
(* in the output files.                                                    *)
(***************************************************************************)
C18_SecondInterruptSavesFinishedSources ==
    camp_pc = "exited" =>
        /\ camp_interrupts = 2
        /\ SumOf(camp_collected) > 0 => camp_written = <<camp_collected>>

(***************************************************************************)
(* C19: when scrape_reviews has returned two reviews for page 1 and none   *)
(* for page 2 (no page failed, no max_reviews), scrape_all_pages calls     *)
(* scrape_reviews for no third page and yields exactly the two reviews.    *)
(***************************************************************************)
YieldedOfPage(p) == {i \in 1..Len(yielded) : yielded[i][1] = p}

TwoThenNone ==
    /\ max_reviews = 0
    /\ failed = {}
    /\ page_num >= 2
    /\ page_num = 2 => (pc \in {"iter", "loop", "done"} /\ reviews = <<>>)
    /\ Cardinality(YieldedOfPage(1)) = 2
    /\ YieldedOfPage(2) = {}

C19_StopsAfterEmptyPage ==
    TwoThenNone =>
        /\ Len(calls) <= 2
        /\ yielded = PageReviews(1, 2)

(***************************************************************************)
(* C20: for every key of a CircuitBreaker, the state is CLOSED only while  *)
(* fewer than failure_threshold record_failure calls have come in a row    *)
(* (a record_success restarts the count), and a CLOSED state has become    *)
(* OPEN only on the failure_threshold-th consecutive record_failure.       *)
(***************************************************************************)
C20_OpensOnThresholdthConsecutiveFailure ==
    \A k \in Keys :
        /\ cb_state[k] = "CLOSED" => cb_streak[k] < cb_failure_threshold
        /\ cb_opened_at[k] # <<>> => cb_opened_at[k][1] = cb_failure_threshold

\* with threshold 2 one key was opened by its second consecutive failure
\* while the other key, with one failure, is still CLOSED
C20_Witness ==
    /\ cb_failure_threshold = 2
    /\ cb_state["k1"] = "OPEN" /\ cb_opened_at["k1"] = <<2>>
    /\ cb_state["k2"] = "CLOSED" /\ cb_streak["k2"] = 1
    /\ cb_opened_at["k2"] = <<>>

\* ---------------------------------------------------------------------------
\* C21: a can_proceed call on an OPEN key either returns False and leaves the
\* key OPEN or moves it to HALF_OPEN; a key leaves OPEN only for HALF_OPEN,
\* only in a can_proceed call for that key which returns True, and only when
\* at least recovery_timeout has elapsed since the key's last recorded failure.
C21_OpenLeavesOnlyByCanProceedAfterTimeout ==
    [][\A k \in Keys :
          cb_state[k] = "OPEN" =>
            /\ cb_state'[k] \in {"OPEN", "HALF_OPEN"}
            /\ cb_state'[k] = "HALF_OPEN" =>
                 /\ cb_last' = <<"can_proceed", k, "True">>
                 /\ cb_now - cb_last_failure_time[k] >= cb_recovery_timeout
            /\ (cb_state'[k] = "OPEN" /\ cb_last'[1] = "can_proceed"
                  /\ cb_last'[2] = k) => cb_last'[3] = "False"]_vars

C21_Witness ==
    \E k \in Keys :
        /\ cb_last = <<"can_proceed", k, "True">>
        /\ cb_state[k] = "HALF_OPEN"
        /\ cb_recovery_timeout = 1
        /\ cb_now - cb_last_failure_time[k] > cb_recovery_timeout

\* ---------------------------------------------------------------------------
\* C22: a record_failure for a HALF_OPEN key leaves the key OPEN, whatever the
\* number of successes recorded since it became HALF_OPEN; a key goes from
\* HALF_OPEN to CLOSED only in a record_success call, and then exactly
\* success_threshold successes were recorded since it became HALF_OPEN.
C22_HalfOpenFailureReopensSuccessesClose ==
    [][\A k \in Keys :
          cb_state[k] = "HALF_OPEN" =>
            /\ cb_failures'[k] = cb_failures[k] + 1 => cb_state'[k] = "OPEN"
            /\ cb_state'[k] = "CLOSED" =>
                 /\ cb_last' = <<"record_success", k, "None">>
                 /\ cb_half_open_successes'[k] = cb_success_threshold
            /\ cb_state'[k] = "OPEN" => cb_last' = <<"record_failure", k, "None">>]_vars

C22_Witness ==
    \E k \in Keys :
        /\ cb_last = <<"record_failure", k, "None">>
        /\ cb_state[k] = "OPEN"
        /\ cb_half_open_successes[k] >= 1
        /\ cb_half_open_successes[k] < cb_success_threshold
        /\ cb_successes[k] = cb_half_open_successes[k]

\* ---------------------------------------------------------------------------
\* C23: a scraper built without a client has, right after each scoped entry,
\* a client of its own that the entry constructed and started, and right
\* after each scoped exit that client is closed, by the scraper; a scraper
\* built with a client keeps that client, constructs none and never closes
\* any; work on a scraper built without a client and never entered fails
\* with 'HTTP client not initialized'.
C23_OwnClientStartedAndClosedSuppliedKept ==
    /\ (~sc_supplied /\ sc_last[1] = "enter") =>
          /\ sc_constructed = sc_enters
          /\ sc_http_client = <<sc_constructed>>
          /\ sc_http_client[1] # CallerClient
          /\ sc_http_client[1] \in sc_open
    /\ (~sc_supplied /\ sc_last[1] = "exit") =>
          /\ sc_http_client[1] \notin sc_open
          /\ sc_http_client[1] \in sc_closed_by_scraper
    /\ sc_supplied =>
          /\ sc_http_client = <<CallerClient>>
          /\ sc_constructed = 0
          /\ sc_closed_by_scraper = {}
    /\ (~sc_supplied /\ sc_enters = 0 /\ sc_last[1] = "work") =>
          sc_last[2] = NotInitialized

C23_Witness ==
    /\ sc_supplied
    /\ sc_last[1] = "exit"
    /\ CallerClient \in sc_open
    /\ sc_enters = 2

\* ---------------------------------------------------------------------------
\* C24: with the default base_delay, exponential_base and max_delay, the
\* delays calculated for attempts 0, 1, 2, ... never decrease from one
\* attempt to the next, whatever the jitter draws, and each of them lies
\* between 0.1 s and max_delay.
C24_DelaysNonDecreasingAndBounded ==
    /\ \A i \in 1..Len(bo_delays) :
          /\ bo_delays[i] >= MinDelay
          /\ bo_delays[i] <= MaxDelay
    /\ \A i \in 1..(Len(bo_delays) - 1) : bo_delays[i] <= bo_delays[i + 1]

C24_Witness ==
    /\ Len(bo_delays) = MaxAttempts
    /\ bo_draws[1] = JitterDen - 1
    /\ bo_draws[2] = 0
    /\ bo_delays[MaxAttempts] = MaxDelay
    /\ bo_delays[MaxAttempts - 1] < MaxDelay

CountIn(seq, x) == Cardinality({i \in 1..Len(seq) : seq[i] = x})

\* ---------------------------------------------------------------------------
\* C25: a get that has returned a response did one rate-limiter acquire
\* first, then the requests and backoff sleeps of the retry handler, the last
\* of them a request, then one delay as its last step; a get that an error
\* of the retry handler has left did no delay.
C25_AcquireThenRequestThenOneDelay ==
    /\ hg_pc = "returned" =>
          /\ Len(hg_trace) >= 3
          /\ hg_trace[1] = "acquire"
          /\ hg_trace[Len(hg_trace)] = "delay"
          /\ hg_trace[Len(hg_trace) - 1] = "request"
          /\ CountIn(hg_trace, "acquire") = 1
          /\ CountIn(hg_trace, "delay") = 1
          /\ \A i \in 2..(Len(hg_trace) - 1) :
                hg_trace[i] \in {"request", "backoff"}
    /\ hg_pc = "raised" =>
          /\ CountIn(hg_trace, "delay") = 0
          /\ hg_trace[1] = "acquire"
          /\ hg_trace[Len(hg_trace)] = "request"

C25_Witness ==
    /\ hg_pc = "returned"
    /\ hg_gets = 2
    /\ hg_trace = <<"acquire", "request", "backoff", "request", "delay">>

\* ---------------------------------------------------------------------------
\* C28: for every domain, the number of transport-level requests sent does
\* not exceed the number of completed rate-limiter acquisitions.
C28_RequestsAtMostAcquisitions ==
    \A d \in Domains : hg_requests[d] <= hg_acquires[d]

\* ---------------------------------------------------------------------------
\* C26: every value an adjustment has set as a domain's rpm lies between the
\* floor of 5 and the ceiling of 60.
C26_AdjustedRpmWithinFloorAndCeiling ==
    \A v \in ar_set_values : MinRpm <= v /\ v <= MaxRpmCeiling

\* ---------------------------------------------------------------------------
\* C27: when the first page has no page-number link, no review count and no
\* 'next' control, get_pagination_urls returns the base URL alone.
C27_NothingFoundOnlyBaseUrl ==
    (/\ tp_pc = "done"
     /\ tp_link_pages = <<>>
     /\ tp_total_reviews = <<>>
     /\ ~tp_next_button) => tp_urls = << <<"base", 1>> >>

\* ---------------------------------------------------------------------------
\* C29: after any sequence of process and process_stream calls, the input
\* counter equals the sum of the output, filtered_length, deduplicated and
\* filtered_quality counters.
C29_InputEqualsOutputPlusDropped ==
    ps_stats.input = ps_stats.output + ps_stats.filtered_length
                       + ps_stats.deduplicated + ps_stats.filtered_quality

\* ---------------------------------------------------------------------------
\* C30: scrape_reviews called with max_reviews = m >= 1 returns at most m
\* reviews.
C30_SteamReturnsAtMostMax ==
    (st_pc = "returned" /\ st_max_reviews # <<>>) =>
        Len(st_returned) <= st_max_reviews[1]

=============================================================================
